---- MODULE Spec2Model ----
(***************************************************************************)
(* Round-based consensus engine (consensus_engine/engine.py,              *)
(* config/round_config.py, config/settings.py, database/models.py).       *)
(*                                                                         *)
(* Numbers in [0,1] are fixed point: One stands for 1.0, so 7000 is 0.70.  *)
(* Python dicts are sequences of entries in insertion order.               *)
(***************************************************************************)
EXTENDS Integers, Sequences, FiniteSets, TLC

(* ------------------------------ bounds --------------------------------- *)
\* number of agents handed to ConsensusEngine(llms, db)
NAgents == 2
\* agent calls of one discussion that do not return the default answer
MaxDeviations == 3
\* the same, over all the calls that run concurrently
MaxConcurrentDeviations == 1
\* times the event loop goes from one discussion to another between two
\* responses it persists
MaxSwitches == 2

\* calls a client makes on one RoundManager
MaxCalls == 3

(* --------------------------- configuration ----------------------------- *)
\* fixed-point representation of the float 1.0
One == 10000

\* CONSENSUS_SETTINGS["consensus_threshold"] = 0.70
ConsensusThreshold == 7000

ROUND_SEQUENCE == <<"PRE_FLOP", "FLOP", "TURN", "RIVER", "SHOWDOWN">>

\* ROUND_CONFIGS[round_type]["required_confidence"]
\* the TURN threshold lies below the FLOP threshold
RequiredConfidenceTurnLow(round_type) ==
    CASE round_type = "PRE_FLOP" -> 0
      [] round_type = "FLOP"     -> 5000
      [] round_type = "TURN"     -> 4000
      [] round_type = "RIVER"    -> 7000
      [] round_type = "SHOWDOWN" -> 7500

RequiredConfidence(round_type) ==
    CASE round_type = "PRE_FLOP" -> 0
      [] round_type = "FLOP"     -> 5000
      [] round_type = "TURN"     -> 6000
      [] round_type = "RIVER"    -> 7000
      [] round_type = "SHOWDOWN" -> 7500

\* the replacement fields that occur in ROUND_CONFIGS[round_type]["consensus_guidance"]
GuidanceFields(round_type) ==
    CASE round_type = "PRE_FLOP" -> {"similarity", "avg_confidence", "consensus_threshold"}
      [] round_type = "FLOP"     -> {"similarity", "consensus_threshold", "avg_confidence",
                                     "key_differences"}
      [] round_type = "TURN"     -> {"similarity", "consensus_threshold", "alignment_areas",
                                     "remaining_issues"}
      [] round_type = "RIVER"    -> {"agreed_format", "similarity", "consensus_threshold",
                                     "avg_confidence", "key_alignments"}
      [] round_type = "SHOWDOWN" -> {"strict_format", "similarity", "consensus_threshold",
                                     "avg_confidence"}

\* the keyword arguments _format_round_prompt passes to round_guidance.format(...)
FormatKeywords ==
    {"similarity", "consensus_threshold", "avg_confidence", "key_differences",
     "alignment_areas", "remaining_issues", "key_alignments"}

(* ------------------------------- agents -------------------------------- *)
\* every llm of the list reports the same name
AgentNameShared(i) == <<"llm", 1>>

\* self.llms is a list; llm.name is a string, modelled as the pair <<"llm", i>>:
\* the llms of the list have different names, as in cli.py, web.py and the tests
AgentName(i) == <<"llm", i>>

llms == [i \in 1..NAgents |-> AgentName(i)]

\* self.llms[key], key given with its Python type: a list indexed by anything
\* but an integer raises TypeError
LlmsGetItem(key) ==
    IF key.type = "int" /\ key.value \in 1..NAgents
    THEN [raised |-> FALSE, llm |-> llms[key.value]]
    ELSE [raised |-> TRUE, llm |-> <<>>]

(* ---------------------------- response texts --------------------------- *)
(* A response text is                                                      *)
(*     IMPLEMENTATION: <body>         (label "none": <body> alone)         *)
(*     EVIDENCE: <items>              (when ev # "none")                   *)
(*     CONFIDENCE: <number>           (when conf # NoLabel)                *)
(*     ```python <code> ```           (when code # "none")                 *)
(* body, the evidence items and the number are written with words of two   *)
(* or more characters that are no stop words, and two bodies (item lists,  *)
(* numbers) are either equal or share no word.                             *)
NoLabel == -1

MkText(body, conf, code, ev) ==
    [body |-> body, conf |-> conf, code |-> code, ev |-> ev, label |-> "IMPLEMENTATION"]

\* a text without any upper-case label: its body, and a fenced block or none
MkPlain(body, code) ==
    [body |-> body, conf |-> NoLabel, code |-> code, ev |-> "none", label |-> "none"]

\* the answers an agent gives in the model; TA is the default answer
TA == MkText("A", 9000, "none", "none")
TB == MkText("B", 9000, "none", "none")
TL == MkText("A", 4000, "none", "none")
TC == MkText("A", 9000, "c1", "none")

RespTexts == {TA, TB, TL, TC}

Min(a, b) == IF a <= b THEN a ELSE b

RECURSIVE SumSeq(_)
SumSeq(s) == IF s = <<>> THEN 0 ELSE Head(s) + SumSeq(Tail(s))

\* "```" in text
HasFence(text) == text.code # "none"

\* "EVIDENCE:" in text
HasEvidenceLabel(text) == text.ev # "none"

Max(a, b) == IF a >= b THEN a ELSE b

\* every number is taken for a percentage
ScaleConfidenceAlwaysPercent(confidence) == Min(Max(confidence \div 100, 0), One)

\* line 290: min(max(confidence / 100 if confidence > 1 else confidence, 0.0), 1.0)
ScaleConfidence(confidence) ==
    Min(Max(IF confidence > One THEN confidence \div 100 ELSE confidence, 0), One)

\* _extract_confidence of a response text, whose conf is the number written
\* after its CONFIDENCE: label, in units of 1/One
ExtractConfidence(text) ==
    IF text.conf = NoLabel THEN 0 ELSE ScaleConfidence(text.conf)

(* the line of the confidence as it is written: a label and the characters *)
(* that follow it                                                          *)
MaxChars == 4

Digits == {"0", "1", "5", "8"}
ConfidenceChars == Digits \cup {".", "-", " "}
ConfidenceLabels == {"none", "CONFIDENCE:", "confidence:"}

DigitValue(ch) == CASE ch = "0" -> 0 [] ch = "1" -> 1 [] ch = "5" -> 5 [] ch = "8" -> 8

RECURSIVE Pow10(_)
Pow10(k) == IF k = 0 THEN 1 ELSE 10 * Pow10(k - 1)

\* the number of leading characters of s that satisfy the class
RECURSIVE RunLength(_, _)
RunLength(s, class) ==
    IF s = <<>> \/ Head(s) \notin class THEN 0 ELSE 1 + RunLength(Tail(s), class)

\* group(1) of re.search(r"CONFIDENCE:\s*(\d*\.?\d+)", ...) for the characters
\* after the label: white space is skipped, then the digits, a point and the
\* digits after it match; without a digit after the point the match is
\* backtracked to the leading digits; <<>> when nothing matches
ConfidenceMatch(chars) ==
    LET s == SubSeq(chars, RunLength(chars, {" "}) + 1, Len(chars))
        a == RunLength(s, Digits)
        rest == SubSeq(s, a + 1, Len(s))
        b == IF rest # <<>> /\ Head(rest) = "." THEN RunLength(Tail(rest), Digits) ELSE 0
    IN  IF b >= 1 THEN SubSeq(s, 1, a + 1 + b)
        ELSE SubSeq(s, 1, a)

\* float(group), in units of 1/One
Float(group) ==
    LET p == RunLength(group, Digits) + 1
    IN  SumSeq([i \in 1..Len(group) |->
                  IF i < p THEN DigitValue(group[i]) * Pow10(p - 1 - i) * One
                  ELSE IF i = p THEN 0
                  ELSE (DigitValue(group[i]) * One) \div Pow10(i - p)])

\* _extract_confidence of a text with the given label (or none) followed by
\* chars: without a match of the pattern the result is 0.0
ExtractConfidenceWritten(label, chars) ==
    IF label = "none" \/ ConfidenceMatch(chars) = <<>> THEN 0
    ELSE ScaleConfidence(Float(ConfidenceMatch(chars)))

\* extract_sections(text).keys(): the upper-case labels of the text
SectionLabels(text) ==
    (IF text.label # "none" THEN {text.label} ELSE {})
      \cup (IF text.ev # "none" THEN {"EVIDENCE"} ELSE {})
      \cup (IF text.conf # NoLabel THEN {"CONFIDENCE"} ELSE {})

\* normalize_text(extract_sections(text)[label]): the code block that follows
\* the last label is joined to that section and stripped again by normalize_text
SectionText(text, label) ==
    CASE label = "IMPLEMENTATION" -> <<"body", text.body>>
      [] label = "EVIDENCE"       -> <<"ev", text.ev>>
      [] label = "CONFIDENCE"     -> <<"conf", text.conf>>

\* cosine_similarity of the TF-IDF vectors of two section texts: equal texts
\* have equal vectors, texts without a common word are orthogonal
Cosine(a, b) == IF a = b THEN One ELSE 0

\* the ordered pairs of distinct positions / the pairs i < j of 1..n
OrderedPairs(n) == {p \in (1..n) \X (1..n) : p[1] # p[2]}
UpperPairs(n) == {p \in (1..n) \X (1..n) : p[1] < p[2]}

RECURSIVE SumOver(_, _)
SumOver(f, S) ==
    IF S = {} THEN 0
    ELSE LET x == CHOOSE y \in S : TRUE IN f[x] + SumOver(f, S \ {x})

\* the mean over the shared sections, with 1.0 for fewer than two responses
CalculateSimilarityLoneIsOne(texts) ==
    IF Len(texts) < 2 THEN One
    ELSE LET n == Len(texts)
             shared == {l \in SectionLabels(texts[1]) :
                          \A i \in 1..n : l \in SectionLabels(texts[i])}
             cos == [l \in shared |->
                       [p \in OrderedPairs(n) |->
                          Cosine(SectionText(texts[p[1]], l), SectionText(texts[p[2]], l))]]
             avg == [l \in shared |-> SumOver(cos[l], OrderedPairs(n)) \div (n * (n - 1))]
         IN  IF shared = {} THEN 0 ELSE SumOver(avg, shared) \div Cardinality(shared)

\* _calculate_similarity: fewer than two responses -> 0.0; otherwise the mean,
\* over the sections every response has, of the mean off-diagonal cosine
CalculateSimilarity(texts) ==
    IF Len(texts) < 2 THEN 0
    ELSE LET n == Len(texts)
             names == UNION {SectionLabels(texts[i]) : i \in 1..n}
             shared == {l \in names : \A i \in 1..n : l \in SectionLabels(texts[i])}
             cos == [l \in shared |->
                       [p \in OrderedPairs(n) |->
                          Cosine(SectionText(texts[p[1]], l), SectionText(texts[p[2]], l))]]
             avg == [l \in shared |-> SumOver(cos[l], OrderedPairs(n)) \div (n * (n - 1))]
         IN  IF shared = {} THEN 0 ELSE SumOver(avg, shared) \div Cardinality(shared)

\* _extract_code_blocks: the normalised fenced blocks of a text
ExtractCodeBlocks(text) == IF text.code = "none" THEN <<>> ELSE <<text.code>>

\* the normalised fenced blocks of the model, as characters
CodeChars(code) ==
    CASE code = "c1" -> <<"a", "+", "b">>
      [] code = "c2" -> <<"b", "+", "a">>
      [] code = "c3" -> <<"a", "=", "a">>
      [] code = "c4" -> <<"b", "=", "b", "+", "a">>
      [] code = "c5" -> <<"1", "+", "1">>

\* the length of the longest common run of a from i and b from j
RECURSIVE CommonRun(_, _, _, _)
CommonRun(a, b, i, j) ==
    IF i > Len(a) \/ j > Len(b) \/ a[i] # b[j] THEN 0
    ELSE 1 + CommonRun(a, b, i + 1, j + 1)

\* SequenceMatcher.find_longest_match: of the longest matching blocks the
\* one that starts earliest in a, and of those the one that starts earliest
\* in b (size 0 when no character matches)
LongestMatch(a, b) ==
    LET runs == {[i |-> p[1], j |-> p[2], size |-> CommonRun(a, b, p[1], p[2])] :
                    p \in (1..Len(a)) \X (1..Len(b))}
    IN  CHOOSE m \in runs :
            \A o \in runs :
                \/ m.size > o.size
                \/ m.size = o.size /\ m.i < o.i
                \/ m.size = o.size /\ m.i = o.i /\ m.j <= o.j

\* SequenceMatcher.get_matching_blocks: the longest match, then the matches
\* to its left and to its right; the number of matched characters
RECURSIVE MatchedChars(_, _)
MatchedChars(a, b) ==
    IF a = <<>> \/ b = <<>> THEN 0
    ELSE CHOOSE total \in
             UNION {{IF m.size = 0 THEN 0
                     ELSE m.size + MatchedChars(left_a, left_b)
                                 + MatchedChars(right_a, right_b) :
                        left_a \in {SubSeq(a, 1, m.i - 1)},
                        left_b \in {SubSeq(b, 1, m.j - 1)},
                        right_a \in {SubSeq(a, m.i + m.size, Len(a))},
                        right_b \in {SubSeq(b, m.j + m.size, Len(b))}} :
                    m \in {LongestMatch(a, b)}} : TRUE

\* SequenceMatcher(None, a, b).ratio(): 2.0 * matches / (len(a) + len(b)),
\* 1.0 for two empty sequences
SequenceMatcherRatio(a, b) ==
    IF Len(a) + Len(b) = 0 THEN One
    ELSE (2 * MatchedChars(a, b) * One) \div (Len(a) + Len(b))

\* _extract_signatures: the "def name(...)" of a block joined by spaces; no
\* block of the model holds a def
ExtractSignatures(chars) == <<>>

Letters == {"a", "b"}
WordChars == Letters \cup {"1"}

\* re.findall(r'\b[a-zA-Z_]\w*\b', code): the maximal runs of word characters
\* that begin with a letter
Identifiers(chars) ==
    {SubSeq(chars, i, i + RunLength(SubSeq(chars, i, Len(chars)), WordChars) - 1) :
        i \in {x \in 1..Len(chars) :
                  /\ chars[x] \in Letters
                  /\ x = 1 \/ chars[x - 1] \notin WordChars}}

\* compare_code: 0.5 structure + 0.3 signatures + 0.2 identifiers
CompareCode(code1, code2) ==
    LET chars1 == CodeChars(code1)
        chars2 == CodeChars(code2)
        struct_similarity == SequenceMatcherRatio(chars1, chars2)
        sig_similarity == SequenceMatcherRatio(ExtractSignatures(chars1),
                                               ExtractSignatures(chars2))
        vars1 == Identifiers(chars1)
        vars2 == Identifiers(chars2)
        var_similarity == IF vars1 \cup vars2 = {} THEN 0
                          ELSE (Cardinality(vars1 \cap vars2) * One)
                                  \div Cardinality(vars1 \cup vars2)
    IN  (struct_similarity * 5 + sig_similarity * 3 + var_similarity * 2) \div 10

\* _calculate_code_similarity: min over the responses i < j of the zipped blocks
CalculateCodeSimilarity(code_blocks) ==
    IF code_blocks = <<>> \/ \E i \in 1..Len(code_blocks) : code_blocks[i] = <<>> THEN 0
    ELSE LET sims == UNION {{CompareCode(code_blocks[p[1]][z], code_blocks[p[2]][z]) :
                               z \in 1..Min(Len(code_blocks[p[1]]), Len(code_blocks[p[2]]))} :
                             p \in UpperPairs(Len(code_blocks))}
         IN  IF sims = {} THEN 0 ELSE CHOOSE m \in sims : \A s \in sims : m <= s

\* extract_evidence: the comma separated items of the EVIDENCE: line
ExtractEvidence(text) == IF text.ev = "none" THEN {} ELSE {text.ev}

\* _calculate_evidence_similarity: mean Jaccard index over the pairs i < j
CalculateEvidenceSimilarity(texts) ==
    IF \E i \in 1..Len(texts) : ExtractEvidence(texts[i]) = {} THEN 0
    ELSE LET n == Len(texts)
             jac == [p \in UpperPairs(n) |->
                       LET s1 == ExtractEvidence(texts[p[1]])
                           s2 == ExtractEvidence(texts[p[2]])
                       IN  (Cardinality(s1 \cap s2) * One) \div Cardinality(s1 \cup s2)]
         IN  IF UpperPairs(n) = {} THEN 0
             ELSE SumOver(jac, UpperPairs(n)) \div Cardinality(UpperPairs(n))

(* ------------------------- the decision rule --------------------------- *)
None == [tag |-> "None"]

\* the rule with a similarity threshold that grows with the round
ConsensusReachedPerRound(similarity, avg_confidence, round_type) ==
    /\ similarity >= RequiredConfidence(round_type)
    /\ avg_confidence >= RequiredConfidence(round_type)

\* lines 365-369: one similarity threshold, the required confidence of the round
ConsensusReached(similarity, avg_confidence, round_type) ==
    /\ similarity >= ConsensusThreshold
    /\ avg_confidence >= RequiredConfidence(round_type)

\* the similarity is the base similarity whatever the texts hold
CheckConsensusBaseOnly(resps, round_type) ==
    LET n == Len(resps)
        texts == [i \in 1..n |-> resps[i].response]
        confidences == [i \in 1..n |-> resps[i].confidence]
        similarity == CalculateSimilarity(texts)
    IN  IF n = 0
        THEN [raised |-> TRUE, consensus_reached |-> FALSE, metrics |-> None]
        ELSE LET avg_confidence == SumSeq(confidences) \div n
             IN  [raised |-> FALSE,
                  consensus_reached |-> ConsensusReached(similarity, avg_confidence,
                                                         round_type),
                  metrics |-> [tag |-> "metrics", similarity |-> similarity,
                               avg_confidence |-> avg_confidence]]

\* _check_consensus(responses, round_type); responses is current_responses,
\* the entries [name, response, confidence] in insertion order.  With no
\* response, sum(confidences) / len(confidences) raises ZeroDivisionError.
CheckConsensus(resps, round_type) ==
    LET n == Len(resps)
        texts == [i \in 1..n |-> resps[i].response]
        confidences == [i \in 1..n |-> resps[i].confidence]
        base == CalculateSimilarity(texts)
        has_code == \E i \in 1..n : HasFence(texts[i])
        has_evidence == \E i \in 1..n : HasEvidenceLabel(texts[i])
        code_blocks == [i \in 1..n |-> ExtractCodeBlocks(texts[i])]
        with_code == IF has_code /\ \A i \in 1..n : code_blocks[i] # <<>>
                     THEN (base * 3 + CalculateCodeSimilarity(code_blocks) * 7) \div 10
                     ELSE base
        similarity == IF has_evidence
                      THEN (with_code * 7 + CalculateEvidenceSimilarity(texts) * 3) \div 10
                      ELSE with_code
    IN  IF n = 0
        THEN [raised |-> TRUE, consensus_reached |-> FALSE, metrics |-> None]
        ELSE LET avg_confidence == SumSeq(confidences) \div n
             IN  [raised |-> FALSE,
                  consensus_reached |-> ConsensusReached(similarity, avg_confidence,
                                                         round_type),
                  metrics |-> [tag |-> "metrics", similarity |-> similarity,
                               avg_confidence |-> avg_confidence]]

(* --------------------------- prompt composer --------------------------- *)
\* f"{x:.2f}": x written with two decimals
TwoDecimals(x) == ((x + 50) \div 100) * 100

\* what round_guidance.format(...) writes of the metrics: the replacement
\* fields of the guidance of the round_type that name a metric, each with
\* two decimals
ShownMetrics(round_type, consensus_metrics) ==
    [field \in GuidanceFields(round_type) \cap {"similarity", "avg_confidence"} |->
        TwoDecimals(consensus_metrics[field])]

\* the prompt without the section "Previous responses:"
FormatRoundPromptBare(round_type, prompt, previous_responses, consensus_metrics) ==
    IF consensus_metrics # None /\ ~(GuidanceFields(round_type) \subseteq FormatKeywords)
    THEN [raised |-> TRUE]
    ELSE [raised |-> FALSE, round_type |-> round_type, prompt |-> prompt,
          previous |-> <<>>,
          metrics |-> IF consensus_metrics = None THEN None
                      ELSE ShownMetrics(round_type, consensus_metrics),
          code_guidance |-> FALSE]

\* _format_round_prompt: with metrics, round_guidance.format(...) raises KeyError
\* for a replacement field that is not among the keyword arguments; without
\* metrics the guidance is appended unformatted
FormatRoundPrompt(round_type, prompt, previous_responses, consensus_metrics) ==
    IF consensus_metrics # None /\ ~(GuidanceFields(round_type) \subseteq FormatKeywords)
    THEN [raised |-> TRUE]
    ELSE [raised |-> FALSE,
          round_type |-> round_type,
          prompt |-> prompt,
          previous |-> previous_responses,
          metrics |-> IF consensus_metrics = None THEN None
                      ELSE ShownMetrics(round_type, consensus_metrics),
          code_guidance |-> \E i \in 1..Len(previous_responses) :
                               HasFence(previous_responses[i].response)]

(* --------------------------- cross evaluation -------------------------- *)
\* the position of the entry of a name in a dict, 0 when the key is absent
IndexOf(dict, name) ==
    IF \E i \in 1..Len(dict) : dict[i].name = name
    THEN CHOOSE i \in 1..Len(dict) : dict[i].name = name
    ELSE 0

\* the scores the agents would give when asked: EvalAnswers[e][t] is the score
\* of the agent at position e of the dict for the response at position t
EvalAnswers == [1..NAgents -> [1..NAgents -> {0, One}]]

\* a pair whose evaluation raises gets no entry
GetCrossEvaluationsDroppingFailed(resps, answers) ==
    LET n == Len(resps)
        targets(e) == SelectSeq([t \in 1..n |-> t],
                                LAMBDA t : /\ t # e
                                           /\ ~LlmsGetItem([type |-> "str",
                                                            value |-> resps[e].name]).raised)
    IN  SelectSeq(
          [e \in 1..n |->
             [name |-> resps[e].name,
              scores |-> [j \in 1..Len(targets(e)) |->
                            [name |-> resps[targets(e)[j]].name,
                             score |-> answers[e][targets(e)[j]]]]]],
          LAMBDA ev : ev.scores # <<>>)

\* _get_cross_evaluations: evaluations[evaluator][target] for every evaluator
\* and every other target, in insertion order.  self.llms[evaluator_name]
\* is evaluated inside the try; when it raises the pair is scored 0.0.
\* answers[e][t] is the score the agent at position e would give target t.
GetCrossEvaluations(resps, answers) ==
    LET n == Len(resps)
        targets(e) == SelectSeq([t \in 1..n |-> t], LAMBDA t : t # e)
    IN  SelectSeq(
          [e \in 1..n |->
             [name |-> resps[e].name,
              scores |-> [j \in 1..Len(targets(e)) |->
                            [name |-> resps[targets(e)[j]].name,
                             score |-> IF LlmsGetItem([type |-> "str",
                                                          value |-> resps[e].name]).raised
                                       THEN 0
                                       ELSE answers[e][targets(e)[j]]]]]],
          LAMBDA ev : ev.scores # <<>>)

\* the generate_response calls _get_cross_evaluations makes, in the order of
\* its two loops: one for every evaluator and every other target whose
\* self.llms[evaluator_name] does not raise, with the prompt built from the
\* response of the target
CrossEvaluationCalls(resps) ==
    LET n == Len(resps)
        pair(p) == [e |-> ((p - 1) \div n) + 1, t |-> ((p - 1) % n) + 1]
        made == SelectSeq([p \in 1..(n * n) |-> pair(p)],
                          LAMBDA q : /\ resps[q.e].name # resps[q.t].name
                                     /\ ~LlmsGetItem([type |-> "str",
                                                      value |-> resps[q.e].name]).raised)
    IN  [i \in 1..Len(made) |->
           [evaluator |-> resps[made[i].e].name,
            target |-> resps[made[i].t].name,
            prompt |-> [response |-> resps[made[i].t].response,
                        code |-> HasFence(resps[made[i].t].response)]]]

\* the first position of a sequence of numbers that holds its maximum (max())
FirstMax(values) ==
    CHOOSE i \in 1..Len(values) :
        /\ \A j \in 1..Len(values) : values[j] <= values[i]
        /\ \A j \in 1..(i - 1) : values[j] < values[i]

\* _select_best_implementation: the response of the target with the highest
\* mean score received; max() keeps the first of equal maxima
SelectBestImplementation(resps, evaluations) ==
    LET received(name) ==
            LET given == SelectSeq(evaluations, LAMBDA ev : IndexOf(ev.scores, name) # 0)
            IN  [i \in 1..Len(given) |-> given[i].scores[IndexOf(given[i].scores, name)].score]
        avg_scores == [t \in 1..Len(resps) |->
                         IF received(resps[t].name) = <<>> THEN 0
                         ELSE SumSeq(received(resps[t].name))
                                \div Len(received(resps[t].name))]
    IN  resps[FirstMax(avg_scores)].response

\* discuss, lines 541-545: the evaluator whose mean GIVEN score is highest;
\* max() of an empty dict raises ValueError
SelectConsensusLlm(evaluations) ==
    IF evaluations = <<>> THEN [raised |-> TRUE, name |-> <<>>]
    ELSE LET given == [e \in 1..Len(evaluations) |->
                         SumSeq([j \in 1..Len(evaluations[e].scores) |->
                                   evaluations[e].scores[j].score])
                           \div Len(evaluations[e].scores)]
         IN  [raised |-> FALSE, name |-> evaluations[FirstMax(given)].name]

\* the names engine.py imports or defines at module level
ModuleNames ==
    {"List", "Dict", "Optional", "Callable", "Any", "Tuple", "asyncio", "Session",
     "datetime", "logging", "nltk", "os", "re", "sent_tokenize", "TfidfVectorizer",
     "cosine_similarity", "SequenceMatcher", "Lock", "BaseLLM", "Discussion",
     "DiscussionRound", "LLMResponse", "CONSENSUS_SETTINGS", "ROUND_CONFIGS",
     "ROUND_SEQUENCE", "CONFIDENCE_GUIDANCE", "RESPONSE_FORMAT",
     "CODE_CONSENSUS_GUIDANCE", "logger", "ConsensusEngine"}

\* _validate_code_implementation: tempfile.NamedTemporaryFile is evaluated
\* inside the try, and any exception makes the result False; lint_ok is
\* the outcome of pylint (global_note >= 7.0) and of the embedded tests
ValidateCodeImplementation(code, lint_ok) ==
    IF "tempfile" \notin ModuleNames THEN FALSE ELSE lint_ok

(* ------------------------------- state --------------------------------- *)
VARIABLES
    calls,             \* the frame of each discuss() call: its locals and position
    discussions,       \* committed rows of the discussions table
    rounds,            \* committed rows of the discussion_rounds table
    responses,         \* committed rows of the llm_responses table
    discussion_locks,  \* keys of self._discussion_locks
    deviations,        \* agent calls that may still deviate from the default answer
    fn                 \* a function applied on its own: its arguments and its result

vars == <<calls, discussions, rounds, responses, discussion_locks, deviations, fn>>

\* the discuss() calls made on the engine
CallIds == {1}

Prompt(c) == <<"prompt", c>>

\* every Discussion gets the primary key 1
NewDiscussionSharedId(id, prompt) ==
    [id |-> 1, prompt |-> prompt, completed_at |-> FALSE,
     consensus_reached |-> 0, final_consensus |-> None]

\* a Discussion object before it is added: Column defaults of database/models.py
NewDiscussion(id, prompt) ==
    [id |-> id, prompt |-> prompt, completed_at |-> FALSE,
     consensus_reached |-> 0, final_consensus |-> None]

IdleCall ==
    [pc |-> "idle", discussion |-> None, previous_responses |-> <<>>,
     current_round |-> 0, consensus_metrics |-> None, all_responses |-> <<>>,
     round_id |-> 0, round_responses |-> <<>>, current_responses |-> <<>>,
     k |-> 0, consensus_result |-> None, result |-> None, exc |-> "",
     started |-> <<>>, queries |-> <<>>, failed |-> <<>>, progress |-> <<>>,
     evaluation_calls |-> <<>>, global_lock |-> FALSE,
     expired_round |-> -1, storage_errors |-> <<>>]

Init ==
    /\ calls = [c \in CallIds |-> IdleCall]
    /\ discussions = <<>>
    /\ rounds = <<>>
    /\ responses = <<>>
    /\ discussion_locks = {}
    /\ deviations = MaxDeviations
    /\ fn = None

\* ROUND_SEQUENCE read from its end
RoundTypeFromEnd(f) == ROUND_SEQUENCE[Len(ROUND_SEQUENCE) - f.current_round]

\* round_type of the iteration the call is in
RoundType(f) == ROUND_SEQUENCE[f.current_round + 1]

\* self.db.commit() of the call's Discussion object
CommitDiscussion(d) == [discussions EXCEPT ![d.id] = d]

\* update_progress(msg): the callback receives msg
UpdateProgress(f, msg) == [f EXCEPT !.progress = Append(@, msg)]

\* self._global_lock is free: no call is inside an "async with
\* self._global_lock" block, so acquire() returns without suspending
GlobalLockFree == \A c \in DOMAIN calls : ~calls[c].global_lock

\* "async with self._global_lock:" entered by the call
EnterGlobalLock(f) == [f EXCEPT !.global_lock = TRUE]

\* the lock is not released when the block is left
KeepGlobalLock(f) == f

\* the end of the "async with self._global_lock:" block
ExitGlobalLock(f) == [f EXCEPT !.global_lock = FALSE]

\* the outer "except Exception" of discuss followed by its "finally":
\* completed_at is set and committed, the exception is raised again and the
\* entry of the discussion is popped from _discussion_locks
\* the handler commits the Discussion as resolved before it raises again
RaiseFromResolved(c, f, exc) ==
    LET d == [f.discussion EXCEPT !.consensus_reached = 1, !.completed_at = TRUE]
    IN  /\ GlobalLockFree
        /\ calls' = [calls EXCEPT ![c] =
                        ExitGlobalLock(EnterGlobalLock(
                            [f EXCEPT !.pc = "raised", !.exc = exc, !.discussion = d]))]
        /\ discussions' = CommitDiscussion(d)
        /\ discussion_locks' = discussion_locks \ {d.id}

\* the handler raises again and the entry of the discussion stays registered
RaiseFromKeepingEntry(c, f, exc) ==
    LET d == [f.discussion EXCEPT !.completed_at = TRUE]
    IN  /\ GlobalLockFree
        /\ calls' = [calls EXCEPT ![c] =
                        ExitGlobalLock(EnterGlobalLock(
                            [f EXCEPT !.pc = "raised", !.exc = exc, !.discussion = d]))]
        /\ discussions' = CommitDiscussion(d)
        /\ UNCHANGED discussion_locks

RaiseFrom(c, f, exc) ==
    LET d == [f.discussion EXCEPT !.completed_at = TRUE]
    IN  /\ GlobalLockFree
        /\ calls' = [calls EXCEPT ![c] =
                        ExitGlobalLock(EnterGlobalLock(
                            [f EXCEPT !.pc = "raised", !.exc = exc, !.discussion = d]))]
        /\ discussions' = CommitDiscussion(d)
        /\ discussion_locks' = discussion_locks \ {d.id}

\* a return inside the try followed by the "finally"
ReturnFrom(c, f, result) ==
    /\ GlobalLockFree
    /\ calls' = [calls EXCEPT ![c] =
                    ExitGlobalLock(EnterGlobalLock(
                        [f EXCEPT !.pc = "returned", !.result = result]))]
    /\ discussion_locks' = discussion_locks \ {f.discussion.id}

(* ------------------------------ discuss -------------------------------- *)
\* lines 420-438: the Discussion is added and committed and its lock is
\* registered under the global lock; the locals of the loop are initialised
Begin(c) ==
    /\ calls[c].pc = "idle"
    /\ GlobalLockFree
    /\ LET d == NewDiscussion(Len(discussions) + 1, Prompt(c))
           f == [ExitGlobalLock(EnterGlobalLock(calls[c]))
                   EXCEPT !.pc = "round_start", !.discussion = d,
                                 !.previous_responses = <<>>, !.current_round = 0,
                                 !.consensus_metrics = None, !.all_responses = <<>>]
       IN  /\ discussions' = Append(discussions, d)
           /\ discussion_locks' = discussion_locks \cup {d.id}
           /\ calls' = [calls EXCEPT ![c] = UpdateProgress(f, <<"start">>)]
    /\ UNCHANGED <<rounds, responses, deviations, fn>>

\* the rounds after the first keep using the DiscussionRound of the first
StartRoundKeepingRoundId(c) ==
    /\ calls[c].pc = "round_start"
    /\ LET f0 == calls[c]
           f1 == UpdateProgress(f0, <<"round_start", RoundType(f0)>>)
           f2 == [f1 EXCEPT !.round_id = IF f0.round_id = 0 THEN Len(rounds) + 1 ELSE @,
                            !.round_responses = <<>>, !.current_responses = <<>>,
                            !.k = 1, !.pc = "query",
                            !.started = Append(@, RoundType(f0))]
       IN  /\ rounds' = Append(rounds, [id |-> Len(rounds) + 1,
                                        discussion_id |-> f0.discussion.id,
                                        round_number |-> f0.current_round])
           /\ calls' = [calls EXCEPT ![c] = f2]
    /\ UNCHANGED <<discussions, responses, discussion_locks, deviations, fn>>

\* lines 440-451: the next round_type of ROUND_SEQUENCE starts and its
\* DiscussionRound is added and committed
StartRound(c) ==
    /\ calls[c].pc = "round_start"
    /\ LET f0 == calls[c]
           f1 == UpdateProgress(f0, <<"round_start", RoundType(f0)>>)
           f2 == [f1 EXCEPT !.round_id = Len(rounds) + 1,
                            !.round_responses = <<>>, !.current_responses = <<>>,
                            !.k = 1, !.pc = "query",
                            !.started = Append(@, RoundType(f0))]
       IN  /\ rounds' = Append(rounds, [id |-> Len(rounds) + 1,
                                        discussion_id |-> f0.discussion.id,
                                        round_number |-> f0.current_round])
           /\ calls' = [calls EXCEPT ![c] = f2]
    /\ UNCHANGED <<discussions, responses, discussion_locks, deviations, fn>>

\* the for loop over self.llms moves on to the next llm, or to line 493
NextLlm(f) == [f EXCEPT !.k = @ + 1, !.pc = IF f.k + 1 > NAgents THEN "check" ELSE "query"]

\* the prompt of llm k also shows the responses given so far in this round
QueryShowingRound(c) ==
    /\ calls[c].pc = "query"
    /\ LET f0 == calls[c]
           name == llms[f0.k]
           f1 == UpdateProgress(f0, <<"getting", name>>)
           full_prompt == FormatRoundPrompt(RoundType(f0), Prompt(c),
                                            f0.previous_responses \o f0.round_responses,
                                            f0.consensus_metrics)
       IN  calls' = [calls EXCEPT ![c] =
              IF full_prompt.raised
              THEN NextLlm(UpdateProgress(f1, <<"error", name>>))
              ELSE [f1 EXCEPT !.pc = "await",
                              !.queries = Append(@, [round |-> f0.current_round,
                                                     name |-> name,
                                                     prompt |-> full_prompt])]]
    /\ UNCHANGED <<discussions, rounds, responses, discussion_locks, deviations, fn>>

\* lines 454-462 and 487-490: the prompt of llm k is formatted and
\* generate_response is called; an exception of _format_round_prompt is
\* handled like one of the call: logged, reported, and the llm is skipped
Query(c) ==
    /\ calls[c].pc = "query"
    /\ LET f0 == calls[c]
           name == llms[f0.k]
           f1 == UpdateProgress(f0, <<"getting", name>>)
           full_prompt == FormatRoundPrompt(RoundType(f0), Prompt(c),
                                            f0.previous_responses, f0.consensus_metrics)
       IN  calls' = [calls EXCEPT ![c] =
              IF full_prompt.raised
              THEN NextLlm(UpdateProgress(f1, <<"error", name>>))
              ELSE [f1 EXCEPT !.pc = "await",
                              !.queries = Append(@, [round |-> f0.current_round,
                                                     name |-> name,
                                                     prompt |-> full_prompt])]]
    /\ UNCHANGED <<discussions, rounds, responses, discussion_locks, deviations, fn>>

\* lines 462-485: generate_response returns text; its confidence is extracted,
\* the LLMResponse is added and committed, both dicts get the entry
Respond(c, text) ==
    /\ calls[c].pc = "await"
    /\ text = TA \/ deviations > 0
    /\ deviations' = IF text = TA THEN deviations ELSE deviations - 1
    /\ LET f0 == calls[c]
           name == llms[f0.k]
           confidence == ExtractConfidence(text)
           f1 == [f0 EXCEPT !.round_responses =
                                Append(@, [name |-> name, response |-> text]),
                            !.current_responses =
                                Append(@, [name |-> name, response |-> text,
                                           confidence |-> confidence])]
       IN  /\ responses' = Append(responses, [id |-> Len(responses) + 1,
                                              round_id |-> f0.round_id,
                                              llm_name |-> name,
                                              response_text |-> text,
                                              confidence_score |-> confidence])
           /\ calls' = [calls EXCEPT ![c] =
                          NextLlm(UpdateProgress(f1, <<"complete", name, text, confidence>>))]
    /\ UNCHANGED <<discussions, rounds, discussion_locks, fn>>

\* the llm that failed is recorded with an empty answer of confidence 0.0
AgentFailRecordingEmpty(c) ==
    /\ calls[c].pc = "await"
    /\ deviations > 0
    /\ deviations' = deviations - 1
    /\ LET f0 == calls[c]
           name == llms[f0.k]
           empty == MkText("none", NoLabel, "none", "none")
           f1 == [f0 EXCEPT !.failed = Append(@, [round |-> f0.current_round,
                                                  name |-> name]),
                            !.round_responses =
                                Append(@, [name |-> name, response |-> empty]),
                            !.current_responses =
                                Append(@, [name |-> name, response |-> empty,
                                           confidence |-> 0])]
       IN  calls' = [calls EXCEPT ![c] = NextLlm(UpdateProgress(f1, <<"error", name>>))]
    /\ UNCHANGED <<discussions, rounds, responses, discussion_locks, fn>>

\* lines 487-490: generate_response raises; the error is logged and reported
\* and the loop continues with the next llm
AgentFail(c) ==
    /\ calls[c].pc = "await"
    /\ deviations > 0
    /\ deviations' = deviations - 1
    /\ LET f0 == calls[c]
           name == llms[f0.k]
           f1 == [f0 EXCEPT !.failed = Append(@, [round |-> f0.current_round,
                                                  name |-> name])]
       IN  calls' = [calls EXCEPT ![c] = NextLlm(UpdateProgress(f1, <<"error", name>>))]
    /\ UNCHANGED <<discussions, rounds, responses, discussion_locks, fn>>

\* previous_responses.update(round_responses): the entry of an llm that did
\* not answer in this round stays
StoreResponsesKeepingStale(f) ==
    LET old == f.previous_responses
        new == f.round_responses
    IN  [f EXCEPT !.previous_responses =
                      [i \in 1..Len(old) |->
                          IF IndexOf(new, old[i].name) # 0
                          THEN new[IndexOf(new, old[i].name)] ELSE old[i]]
                      \o SelectSeq(new, LAMBDA e : IndexOf(old, e.name) = 0),
                  !.all_responses = f.current_responses]

\* lines 507-509: the dicts of this round replace those of the round before
StoreResponses(f) ==
    [f EXCEPT !.previous_responses = f.round_responses,
              !.all_responses = f.current_responses]

\* lines 492-509: the decision rule is applied to current_responses; its
\* ZeroDivisionError is not handled inside the loop and reaches the outer
\* handler.  Otherwise the summary is reported and the responses of the
\* round become previous_responses and all_responses.
CheckRound(c) ==
    /\ calls[c].pc = "check"
    /\ LET f0 == calls[c]
           consensus_result == CheckConsensus(f0.current_responses, RoundType(f0))
           f1 == [f0 EXCEPT !.consensus_result = consensus_result.consensus_reached,
                            !.consensus_metrics = consensus_result.metrics]
           f2 == UpdateProgress(f1, <<"results", f0.current_round + 1,
                                      consensus_result.metrics,
                                      RequiredConfidence(RoundType(f0))>>)
           f3 == [StoreResponses(f2) EXCEPT !.pc = "decide"]
       IN  IF consensus_result.raised
           THEN RaiseFrom(c, f0, "ZeroDivisionError")
           ELSE /\ calls' = [calls EXCEPT ![c] = f3]
                /\ UNCHANGED <<discussions, discussion_locks>>
    /\ UNCHANGED <<rounds, responses, deviations, fn>>

\* the messages of lines 523-525, one for every recorded score
RECURSIVE EvaluationMessages(_)
EvaluationMessages(evaluations) ==
    IF evaluations = <<>> THEN <<>>
    ELSE [j \in 1..Len(Head(evaluations).scores) |->
            <<"evaluated", Head(evaluations).name, Head(evaluations).scores[j].name,
              Head(evaluations).scores[j].score>>]
         \o EvaluationMessages(Tail(evaluations))

\* the Discussion is completed and committed whenever a round ends
NextRoundCompleting(c, f) ==
    LET d == [f.discussion EXCEPT !.completed_at = TRUE]
        last == f.current_round + 1 = Len(ROUND_SEQUENCE)
    IN  /\ calls' = [calls EXCEPT ![c] =
                       [f EXCEPT !.current_round = @ + 1, !.discussion = d,
                                 !.pc = IF last THEN "returned" ELSE "round_start"]]
        /\ discussions' = CommitDiscussion(d)
        /\ discussion_locks' = IF last THEN discussion_locks \ {d.id} ELSE discussion_locks

\* lines 573-580: the dict returned when no round_type is left
NoConsensusResult(all_responses, consensus_metrics) ==
    [status |-> "no_consensus",
     individual_responses |->
         [i \in 1..Len(all_responses) |->
            [name |-> all_responses[i].name,
             response |-> all_responses[i].response]],
     metrics |-> consensus_metrics]

\* lines 565-580: current_round += 1; after the last round_type the
\* discussion is completed without consensus and the texts of all_responses
\* are returned, otherwise the loop goes on with the next round_type
NextRound(c, f) ==
    IF f.current_round + 1 = Len(ROUND_SEQUENCE)
    THEN LET d == [f.discussion EXCEPT !.completed_at = TRUE]
             f1 == [f EXCEPT !.current_round = @ + 1, !.discussion = d]
             f2 == UpdateProgress(f1, <<"no_consensus">>)
         IN  /\ discussions' = CommitDiscussion(d)
             /\ ReturnFrom(c, f2, NoConsensusResult(f.all_responses, f.consensus_metrics))
    ELSE /\ calls' = [calls EXCEPT ![c] = [f EXCEPT !.current_round = @ + 1,
                                                    !.pc = "round_start"]]
         /\ UNCHANGED <<discussions, discussion_locks>>

\* lines 511-563: only a passed last round is resolved.  The scores are
\* collected, then with a fenced block in some response the best implementation
\* is selected and validated: a failed validation returns at once, a passed
\* one leaves the if and reaches line 565; without a fenced block the text of
\* the selected evaluator becomes the consensus of the Discussion.
Resolve(c, f0) ==
    \E answers \in EvalAnswers, lint_ok \in BOOLEAN :
        LET cur == f0.current_responses
            has_code == \E i \in 1..Len(cur) : HasFence(cur[i].response)
            f1 == UpdateProgress(f0, <<"cross_evaluations">>)
            evaluations == GetCrossEvaluations(cur, answers)
            f2 == [f1 EXCEPT !.progress = @ \o EvaluationMessages(evaluations),
                             !.evaluation_calls = CrossEvaluationCalls(cur)]
            f3 == UpdateProgress(f2, <<"selecting">>)
            best == SelectBestImplementation(cur, evaluations)
            consensus_llm == SelectConsensusLlm(evaluations)
            consensus == cur[IndexOf(cur, consensus_llm.name)].response
            d == [f0.discussion EXCEPT !.consensus_reached = 1,
                                       !.final_consensus = consensus,
                                       !.completed_at = TRUE]
            f4 == UpdateProgress([f2 EXCEPT !.discussion = d], <<"consensus">>)
        IN  IF has_code
            THEN IF ~ValidateCodeImplementation(best, lint_ok)
                 THEN /\ ReturnFrom(c, f3,
                            [status |-> "no_consensus",
                             reason |-> "Code validation failed",
                             individual_responses |-> f0.round_responses,
                             metrics |-> f0.consensus_metrics])
                      /\ UNCHANGED discussions
                 ELSE NextRound(c, f3)
            ELSE IF consensus_llm.raised
                 THEN RaiseFrom(c, f2, "ValueError")
                 ELSE /\ discussions' = CommitDiscussion(d)
                      /\ ReturnFrom(c, f4,
                            [status |-> "consensus_reached",
                             consensus |-> consensus,
                             individual_responses |-> f0.round_responses,
                             metrics |-> f0.consensus_metrics,
                             evaluations |-> evaluations])

\* a round that passed is resolved whatever its round_type
ResolvesWhenPassed(f) == f.consensus_result

\* lines 511-512: consensus_result['consensus_reached'] and
\* round_type == ROUND_SEQUENCE[-1]
ResolvesNow(f) ==
    f.consensus_result /\ RoundType(f) = ROUND_SEQUENCE[Len(ROUND_SEQUENCE)]

\* the call stays at the decision of the round and takes no further step
DecideNever(c) ==
    /\ calls[c].pc = "decide"
    /\ UNCHANGED vars

\* lines 511-565
Decide(c) ==
    /\ calls[c].pc = "decide"
    /\ IF ResolvesNow(calls[c])
       THEN Resolve(c, calls[c])
       ELSE NextRound(c, calls[c])
    /\ UNCHANGED <<rounds, responses, deviations, fn>>

Next ==
    \E c \in CallIds :
        \/ Begin(c)
        \/ StartRound(c)
        \/ Query(c)
        \/ \E text \in RespTexts : Respond(c, text)
        \/ AgentFail(c)
        \/ CheckRound(c)
        \/ Decide(c)

Spec == Init /\ [][Next]_vars

(* ----------------------------- cancellation ---------------------------- *)
\* the caller cancels the task while generate_response is pending:
\* CancelledError is no Exception, so neither handler of discuss runs and
\* only the "finally" pops the entry of the discussion

\* the per-agent handler catches the cancellation like a failure of the llm
CancelCaught(c) ==
    /\ calls[c].pc = "await"
    /\ LET f0 == [calls[c] EXCEPT !.exc = "CancelledError"]
       IN  calls' = [calls EXCEPT ![c] =
                        NextLlm(UpdateProgress(f0, <<"error", llms[f0.k]>>))]
    /\ UNCHANGED <<discussions, rounds, responses, discussion_locks, deviations, fn>>

\* lines 458, 487, 582 and 588-591: CancelledError is raised at the await
Cancel(c) ==
    /\ calls[c].pc = "await"
    /\ GlobalLockFree
    /\ calls' = [calls EXCEPT ![c] =
                    ExitGlobalLock(EnterGlobalLock(
                        [@ EXCEPT !.pc = "raised", !.exc = "CancelledError"]))]
    /\ discussion_locks' = discussion_locks \ {calls[c].discussion.id}
    /\ UNCHANGED <<discussions, rounds, responses, deviations, fn>>

NextCancel == Next \/ \E c \in CallIds : Cancel(c)

SpecCancel == Init /\ [][NextCancel]_vars

(* -------------------------- concurrent calls --------------------------- *)
\* discuss() calls that run as tasks of one event loop on one engine, with
\* one db session
ConcurrentCallIds == {1, 2}

\* the event loop runs a task until it is suspended or over.  discuss() is
\* suspended only in "await llm.generate_response(full_prompt)": _global_lock
\* is taken and released without an await in between, so it is free whenever
\* a task asks for it and "async with" does not suspend.  Task c can take a
\* step when no other task is between two suspensions.
Runnable(c) ==
    \A other \in ConcurrentCallIds \ {c} :
        calls[other].pc \in {"idle", "await", "returned", "raised"}

InitConcurrent ==
    /\ calls = [c \in ConcurrentCallIds |-> IdleCall]
    /\ discussions = <<>>
    /\ rounds = <<>>
    /\ responses = <<>>
    /\ discussion_locks = {}
    /\ deviations = MaxConcurrentDeviations
    /\ fn = None

\* the pairs of successive LLMResponse rows that belong to different Discussions
Switches(round_rows, response_rows) ==
    Cardinality({i \in 1..(Len(response_rows) - 1) :
                    round_rows[response_rows[i].round_id].discussion_id
                      # round_rows[response_rows[i + 1].round_id].discussion_id})

NextConcurrent ==
    \E c \in ConcurrentCallIds :
        /\ Runnable(c)
        /\ \/ Begin(c)
           \/ StartRound(c)
           \/ Query(c)
           \/ \E text \in {TA, TB} : Respond(c, text)
           \/ AgentFail(c)
           \/ CheckRound(c)
           \/ Decide(c)
        /\ Switches(rounds', responses') <= MaxSwitches

SpecConcurrent == InitConcurrent /\ [][NextConcurrent]_vars

(* ------------------------ a raising progress sink ---------------------- *)
\* update_progress calls progress_callback(msg) without a handler of its own
\* (lines 426-430), so an exception of the callback is raised where
\* update_progress was called.

\* line 432: the callback raises on the first message, inside the outer try:
\* the handler of lines 582-586 completes the Discussion and raises again
SinkRaiseStart(c) ==
    /\ calls[c].pc = "idle"
    /\ GlobalLockFree
    /\ deviations > 0
    /\ deviations' = deviations - 1
    /\ LET d == [NewDiscussion(Len(discussions) + 1, Prompt(c)) EXCEPT !.completed_at = TRUE]
       IN  /\ discussions' = Append(discussions, d)
           /\ calls' = [calls EXCEPT ![c] =
                           ExitGlobalLock(EnterGlobalLock(
                               [@ EXCEPT !.pc = "raised", !.exc = "SinkError",
                                         !.discussion = d]))]
    /\ UNCHANGED <<rounds, responses, discussion_locks, fn>>

\* line 441: the callback raises on the message that starts a round, before
\* the DiscussionRound is created
SinkRaiseRoundStart(c) ==
    /\ calls[c].pc = "round_start"
    /\ deviations > 0
    /\ deviations' = deviations - 1
    /\ RaiseFrom(c, calls[c], "SinkError")
    /\ UNCHANGED <<rounds, responses, fn>>

\* line 455: the callback raises on "Getting ...", inside the try of the llm:
\* the handler of lines 487-490 reports the error and the llm is skipped
\* without being called; when the callback raises on that report as well
\* (again), the exception leaves the loop and reaches the outer handler
SinkRaiseGetting(c, again) ==
    /\ calls[c].pc = "query"
    /\ deviations > (IF again THEN 1 ELSE 0)
    /\ deviations' = deviations - (IF again THEN 2 ELSE 1)
    /\ IF again
       THEN RaiseFrom(c, calls[c], "SinkError")
       ELSE /\ calls' = [calls EXCEPT ![c] =
                           NextLlm(UpdateProgress(calls[c], <<"error", llms[calls[c].k]>>))]
            /\ UNCHANGED <<discussions, discussion_locks>>
    /\ UNCHANGED <<rounds, responses, fn>>

\* line 480: the callback raises on the message that reports the response,
\* after the LLMResponse was committed and both dicts got their entry; the
\* handler reports the error and the loop continues
SinkRaiseComplete(c, text) ==
    /\ calls[c].pc = "await"
    /\ deviations > (IF text = TA THEN 0 ELSE 1)
    /\ deviations' = deviations - (IF text = TA THEN 1 ELSE 2)
    /\ LET f0 == calls[c]
           name == llms[f0.k]
           confidence == ExtractConfidence(text)
           f1 == [f0 EXCEPT !.round_responses =
                                Append(@, [name |-> name, response |-> text]),
                            !.current_responses =
                                Append(@, [name |-> name, response |-> text,
                                           confidence |-> confidence])]
       IN  /\ responses' = Append(responses, [id |-> Len(responses) + 1,
                                              round_id |-> f0.round_id,
                                              llm_name |-> name,
                                              response_text |-> text,
                                              confidence_score |-> confidence])
           /\ calls' = [calls EXCEPT ![c] = NextLlm(UpdateProgress(f1, <<"error", name>>))]
    /\ UNCHANGED <<discussions, rounds, discussion_locks, fn>>

\* line 489: the callback raises on the error report of the handler, entered
\* because _format_round_prompt raised: the exception leaves the loop
SinkRaiseError(c) ==
    /\ calls[c].pc = "query"
    /\ FormatRoundPrompt(RoundType(calls[c]), Prompt(c), calls[c].previous_responses,
                         calls[c].consensus_metrics).raised
    /\ deviations > 0
    /\ deviations' = deviations - 1
    /\ RaiseFrom(c, UpdateProgress(calls[c], <<"getting", llms[calls[c].k]>>), "SinkError")
    /\ UNCHANGED <<rounds, responses, fn>>

\* line 502: the callback raises on the summary of the round
SinkRaiseResults(c) ==
    /\ calls[c].pc = "check"
    /\ deviations > 0
    /\ deviations' = deviations - 1
    /\ LET f0 == calls[c]
           consensus_result == CheckConsensus(f0.current_responses, RoundType(f0))
       IN  /\ ~consensus_result.raised
           /\ RaiseFrom(c, [f0 EXCEPT !.consensus_result = consensus_result.consensus_reached,
                                      !.consensus_metrics = consensus_result.metrics],
                        "SinkError")
    /\ UNCHANGED <<rounds, responses, fn>>

NextSink ==
    \/ Next
    \/ \E c \in CallIds :
          \/ SinkRaiseStart(c)
          \/ SinkRaiseRoundStart(c)
          \/ \E again \in BOOLEAN : SinkRaiseGetting(c, again)
          \/ \E text \in RespTexts : SinkRaiseComplete(c, text)
          \/ SinkRaiseError(c)
          \/ SinkRaiseResults(c)

SpecSink == Init /\ [][NextSink]_vars

(* ---------------------- functions applied on their own ----------------- *)
\* the texts the functions are applied to
FnTexts ==
    {MkText(body, conf, code, ev) :
        body \in {"A", "B"}, conf \in {NoLabel, 4000, 9000},
        code \in {"none", "c1", "c2"}, ev \in {"none", "e1"}}

\* current_responses of a round: the llms that answered, in the order of
\* self.llms, each with its text and the confidence extracted from it
DictsOver(universe) ==
    UNION {
      {[i \in 1..Len(who) |-> [name |-> llms[who[i]], response |-> texts[i],
                               confidence |-> ExtractConfidence(texts[i])]] :
          texts \in [1..Len(who) -> universe]} :
      who \in {w \in UNION {[1..m -> 1..NAgents] : m \in 0..NAgents} :
                  \A i \in 1..(Len(w) - 1) : w[i] < w[i + 1]}}

InitFn ==
    /\ calls = [c \in CallIds |-> IdleCall]
    /\ discussions = <<>>
    /\ rounds = <<>>
    /\ responses = <<>>
    /\ discussion_locks = {}
    /\ deviations = MaxDeviations
    /\ \/ \E resps \in DictsOver(FnTexts), i \in 1..Len(ROUND_SEQUENCE) :
             fn = [name |-> "_check_consensus", responses |-> resps,
                   round_type |-> ROUND_SEQUENCE[i], out |-> None]
       \/ \E text \in FnTexts, lint_ok \in BOOLEAN :
             fn = [name |-> "_validate_code_implementation", code |-> text,
                   lint_ok |-> lint_ok, out |-> None]
       \/ \E resps \in DictsOver(RespTexts), answers \in EvalAnswers :
             fn = [name |-> "_get_cross_evaluations", responses |-> resps,
                   answers |-> answers, out |-> None]
       \/ \E resps \in DictsOver(FnTexts) :
             /\ resps # <<>>
             /\ fn = [name |-> "no_consensus_result", responses |-> resps,
                      metrics |-> CheckConsensus(resps, "SHOWDOWN").metrics, out |-> None]

ApplyCheckConsensus ==
    /\ fn.name = "_check_consensus" /\ fn.out = None
    /\ fn' = [fn EXCEPT !.out = CheckConsensus(fn.responses, fn.round_type)]
    /\ UNCHANGED <<calls, discussions, rounds, responses, discussion_locks, deviations>>

ApplyValidateCode ==
    /\ fn.name = "_validate_code_implementation" /\ fn.out = None
    /\ fn' = [fn EXCEPT !.out = [result |-> ValidateCodeImplementation(fn.code, fn.lint_ok)]]
    /\ UNCHANGED <<calls, discussions, rounds, responses, discussion_locks, deviations>>

ApplyGetCrossEvaluations ==
    /\ fn.name = "_get_cross_evaluations" /\ fn.out = None
    /\ fn' = [fn EXCEPT !.out = [evaluations |-> GetCrossEvaluations(fn.responses, fn.answers),
                                 calls |-> CrossEvaluationCalls(fn.responses)]]
    /\ UNCHANGED <<calls, discussions, rounds, responses, discussion_locks, deviations>>

\* the last statement of discuss, for the all_responses and metrics of a
\* last round that did not pass
ApplyNoConsensusResult ==
    /\ fn.name = "no_consensus_result" /\ fn.out = None
    /\ fn' = [fn EXCEPT !.out = NoConsensusResult(fn.responses, fn.metrics)]
    /\ UNCHANGED <<calls, discussions, rounds, responses, discussion_locks, deviations>>

NextFn ==
    \/ ApplyCheckConsensus
    \/ ApplyValidateCode
    \/ ApplyGetCrossEvaluations
    \/ ApplyNoConsensusResult

SpecFn == InitFn /\ [][NextFn]_vars

(* ============================== properties ============================= *)
Finished(f) == f.pc \in {"returned", "raised"}

\* the persisted Discussion row of a call
RowOf(f) == discussions[f.discussion.id]

\* the persisted LLMResponse rows of round k of the discussion of a call
ResponseRows(f, k) ==
    {i \in 1..Len(responses) :
        /\ rounds[responses[i].round_id].discussion_id = f.discussion.id
        /\ rounds[responses[i].round_id].round_number = k}

QueriesOf(f, k, name) == {i \in 1..Len(f.queries) : f.queries[i].round = k /\ f.queries[i].name = name}

FailedIn(f, k, name) == \E i \in 1..Len(f.failed) : f.failed[i] = [round |-> k, name |-> name]

Names == {llms[i] : i \in 1..NAgents}
RoundNumbers == 0..(Len(ROUND_SEQUENCE) - 1)

\* no call of an agent raised and every answer was the same code-free text
\* with confidence 0.90: every round the agents answer passes the decision rule
AgreedThroughout(f) ==
    /\ f.failed = <<>>
    /\ \A k \in RoundNumbers : \A i \in ResponseRows(f, k) : responses[i].response_text = TA

\* C1: a discuss() call that is over has started PRE_FLOP, FLOP, TURN, RIVER,
\* SHOWDOWN in this order, each exactly once; no earlier stage ends the
\* discussion or makes it skip a later stage (calls whose agents all answered).
C1_AllStagesInOrder ==
    \A c \in CallIds :
        (Finished(calls[c]) /\ calls[c].failed = <<>>) => calls[c].started = ROUND_SEQUENCE

\* C2: a stage passes exactly if its similarity score is at least the one
\* global threshold and the mean confidence of its responses is at least the
\* required confidence of its stage type.
C2_DecisionRule ==
    (fn.name = "_check_consensus" /\ fn.out # None) =>
        LET n == Len(fn.responses)
            total == SumSeq([i \in 1..n |-> fn.responses[i].confidence])
        IN  (~fn.out.raised /\ fn.out.consensus_reached)
              <=> (/\ n > 0
                   /\ fn.out.metrics.similarity >= ConsensusThreshold
                   /\ total >= RequiredConfidence(fn.round_type) * n)

\* C2 witness: a final stage of two or more responses that passes, and the
\* rule has been applied
C2_Witness ==
    /\ fn.name = "_check_consensus" /\ fn.out # None
    /\ fn.round_type = "SHOWDOWN"
    /\ Len(fn.responses) >= 2
    /\ fn.out.consensus_reached

\* C3: when the answers make the final stage pass and hold no fenced block,
\* discuss() returns status consensus_reached with a consensus text and the
\* responses of every agent of the final stage, and the Discussion row has
\* consensus_reached set, final_consensus equal to that text, completed_at set.
C3_ConsensusReturned ==
    \A c \in CallIds :
        (Finished(calls[c]) /\ AgreedThroughout(calls[c])) =>
            /\ calls[c].pc = "returned"
            /\ calls[c].result.status = "consensus_reached"
            /\ "consensus" \in DOMAIN calls[c].result
            /\ \A i \in ResponseRows(calls[c], Len(ROUND_SEQUENCE) - 1) :
                  IndexOf(calls[c].result.individual_responses, responses[i].llm_name) # 0
            /\ RowOf(calls[c]).consensus_reached = 1
            /\ RowOf(calls[c]).final_consensus = calls[c].result.consensus
            /\ RowOf(calls[c]).completed_at

\* C4: when the answers make the final stage fail the decision rule, discuss()
\* returns status no_consensus without a consensus text, with the final-stage
\* text of every agent that answered, and the Discussion row is completed with
\* consensus_reached unset and final_consensus null.
C4_NoConsensusReturned ==
    \A c \in CallIds :
        (/\ Finished(calls[c])
         /\ calls[c].failed = <<>>
         /\ calls[c].consensus_result = FALSE) =>
            /\ calls[c].pc = "returned"
            /\ calls[c].result.status = "no_consensus"
            /\ "consensus" \notin DOMAIN calls[c].result
            /\ \A i \in ResponseRows(calls[c], Len(ROUND_SEQUENCE) - 1) :
                  \E j \in 1..Len(calls[c].result.individual_responses) :
                      calls[c].result.individual_responses[j] =
                          [name |-> responses[i].llm_name,
                           response |-> responses[i].response_text]
            /\ RowOf(calls[c]).completed_at
            /\ RowOf(calls[c]).consensus_reached = 0
            /\ RowOf(calls[c]).final_consensus = None

\* C5: an agent whose call raised in stage k was queried exactly once in k and
\* has no Response row in k; every other agent was queried in k; the
\* discussion went on to stage k+1 and queried the failed agent again there.
C5_FailedAgentReturns ==
    \A c \in CallIds : \A k \in RoundNumbers : \A a \in Names :
        (Finished(calls[c]) /\ FailedIn(calls[c], k, a)) =>
            /\ Cardinality(QueriesOf(calls[c], k, a)) = 1
            /\ \A i \in ResponseRows(calls[c], k) : responses[i].llm_name # a
            /\ \A b \in Names : QueriesOf(calls[c], k, b) # {}
            /\ k + 1 < Len(ROUND_SEQUENCE) =>
                  /\ Len(calls[c].started) > k + 1
                  /\ QueriesOf(calls[c], k + 1, a) # {}

\* C6: a stage in which every agent failed fails the decision rule, and
\* discuss() still returns a no_consensus result instead of raising.
C6_EmptyStageNoRaise ==
    \A c \in CallIds :
        (/\ Finished(calls[c])
         /\ \E k \in RoundNumbers : \A a \in Names : FailedIn(calls[c], k, a)) =>
            /\ calls[c].pc = "returned"
            /\ calls[c].result.status = "no_consensus"

\* C7 as stated: one surviving response has similarity 1.0, so the stage
\* passes exactly if the confidence of that response is the required one.
C7_LoneResponseSimilarityOne ==
    (fn.name = "_check_consensus" /\ fn.out # None /\ Len(fn.responses) = 1) =>
        /\ fn.out.metrics.similarity = One
        /\ fn.out.consensus_reached
             <=> fn.responses[1].confidence >= RequiredConfidence(fn.round_type)

\* C7 amended: one surviving response has similarity 0.0, so the stage never
\* passes, whatever the confidence and the content of that response.
C7_LoneResponseNeverPasses ==
    (fn.name = "_check_consensus" /\ fn.out # None /\ Len(fn.responses) = 1) =>
        /\ ~fn.out.raised
        /\ fn.out.metrics.similarity = 0
        /\ ~fn.out.consensus_reached

\* C7 witness: the rule was applied to one response confident enough for its stage
C7_Witness ==
    /\ fn.name = "_check_consensus" /\ fn.out # None
    /\ Len(fn.responses) = 1
    /\ fn.round_type = "SHOWDOWN"
    /\ fn.responses[1].confidence >= RequiredConfidence(fn.round_type)

\* C8: once a discuss() call is over, by a return or by an exception raised
\* after the Discussion was created, completed_at of its Discussion is set.
C8_CompletedWhenOver ==
    \A c \in CallIds : Finished(calls[c]) => RowOf(calls[c]).completed_at

\* C9: the selected winner of a final stage with a fenced block is accepted
\* exactly if it passes the static-quality check (and the result is
\* consensus_reached then, "Code validation failed" otherwise).
C9_ValidationDecides ==
    (fn.name = "_validate_code_implementation" /\ fn.out # None) =>
        (fn.out.result <=> fn.lint_ok)

\* the position of the first candidate with the highest mean score received
BestReceived(individual, evaluations) ==
    LET mean(name) ==
            LET got == {<<e, j>> \in (1..Len(evaluations)) \X (1..Len(individual)) :
                          /\ j <= Len(evaluations[e].scores)
                          /\ evaluations[e].scores[j].name = name}
                sum == SumOver([p \in got |-> evaluations[p[1]].scores[p[2]].score], got)
            IN  IF got = {} THEN 0 ELSE sum \div Cardinality(got)
    IN  CHOOSE i \in 1..Len(individual) :
            /\ \A j \in 1..Len(individual) : mean(individual[j].name) <= mean(individual[i].name)
            /\ \A j \in 1..(i - 1) : mean(individual[j].name) < mean(individual[i].name)

\* C10: when the answers make the final stage pass, the consensus text is the
\* final-stage response of the candidate with the highest mean score received
\* from the other agents, the first such candidate in agent order.
C10_WinnerBestReceived ==
    \A c \in CallIds :
        (Finished(calls[c]) /\ AgreedThroughout(calls[c])) =>
            /\ calls[c].pc = "returned"
            /\ "consensus" \in DOMAIN calls[c].result
            /\ calls[c].result.consensus =
                  calls[c].result.individual_responses[
                      BestReceived(calls[c].result.individual_responses,
                                   calls[c].result.evaluations)].response

\* C11: _get_cross_evaluations over n responses calls generate_response exactly
\* once for every ordered pair of an evaluator and another target, with a
\* prompt that holds the response of the target, and never asks an agent to
\* score its own response.
C11_OneCallPerOrderedPair ==
    (fn.name = "_get_cross_evaluations" /\ fn.out # None) =>
        LET resps == fn.responses
            made == fn.out.calls
        IN  /\ \A e, t \in 1..Len(resps) :
                  e # t =>
                    Cardinality({i \in 1..Len(made) :
                                   /\ made[i].evaluator = resps[e].name
                                   /\ made[i].target = resps[t].name
                                   /\ made[i].prompt.response = resps[t].response}) = 1
            /\ \A i \in 1..Len(made) : made[i].evaluator # made[i].target

\* the call has performed the cross-evaluation step
CrossEvaluated(f) ==
    \/ \E i \in 1..Len(f.progress) : f.progress[i] = <<"cross_evaluations">>
    \/ f.evaluation_calls # <<>>

\* C12: cross-evaluation is performed only after the last round_type has
\* passed the decision rule: never in PRE_FLOP..RIVER, passed or not, and
\* never after a last round that failed.
C12_CrossEvaluationOnlyAfterFinalPass ==
    \A c \in DOMAIN calls :
        CrossEvaluated(calls[c]) =>
            /\ Len(calls[c].started) = Len(ROUND_SEQUENCE)
            /\ calls[c].consensus_result = TRUE

\* two rounds before the last have passed and the call went on to the next
\* round_type without a cross-evaluation
C12_Witness ==
    \E c \in DOMAIN calls :
        /\ calls[c].pc = "round_start"
        /\ calls[c].current_round = 2
        /\ calls[c].consensus_result = TRUE
        /\ \E i \in 1..Len(calls[c].progress) :
              /\ calls[c].progress[i][1] = "results"
              /\ calls[c].progress[i][2] = 1
              /\ ConsensusReached(calls[c].progress[i][3].similarity,
                                  calls[c].progress[i][3].avg_confidence, "PRE_FLOP")
        /\ ~CrossEvaluated(calls[c])

\* round k of the call is over: every llm had its turn
RoundOver(f, k) ==
    \/ f.current_round > k
    \/ f.current_round = k /\ f.pc \in {"check", "decide"}

\* the prompt of round k can be built
PromptBuilt(k) ==
    k = 0 \/ GuidanceFields(ROUND_SEQUENCE[k + 1]) \subseteq FormatKeywords

\* C13: whether the progress callback returns or raises, every agent takes
\* part in every round as it does with a callback that returns, and the
\* discussion is never aborted by an exception of the callback.
C13_SinkObservational ==
    \A c \in DOMAIN calls :
        /\ calls[c].exc # "SinkError"
        /\ \A k \in RoundNumbers : \A a \in Names :
              (RoundOver(calls[c], k) /\ PromptBuilt(k)) =>
                  QueriesOf(calls[c], k, a) # {}

\* the call that owns Discussion d ends in this step
EndsNow(d) ==
    \E c \in DOMAIN calls :
        /\ calls[c].pc # "idle"
        /\ calls[c].discussion.id = d
        /\ ~Finished(calls[c])
        /\ Finished(calls'[c])

\* C14: a Discussion row changes only in the step that ends its call, only
\* once, and only in completed_at, consensus_reached and final_consensus;
\* DiscussionRound and LLMResponse rows are only ever added.
C14_TerminalOnceAppendOnly ==
    [][/\ Len(discussions') >= Len(discussions)
       /\ \A d \in 1..Len(discussions) :
             discussions'[d] # discussions[d] =>
                 /\ ~discussions[d].completed_at
                 /\ EndsNow(d)
                 /\ discussions'[d].id = discussions[d].id
                 /\ discussions'[d].prompt = discussions[d].prompt
       /\ Len(rounds') >= Len(rounds)
       /\ SubSeq(rounds', 1, Len(rounds)) = rounds
       /\ Len(responses') >= Len(responses)
       /\ SubSeq(responses', 1, Len(responses)) = responses]_vars

\* a call is over, its Discussion was completed in its last step, and rounds
\* and responses were added before
C14_Witness ==
    \E c \in DOMAIN calls :
        /\ Finished(calls[c])
        /\ RowOf(calls[c]).completed_at
        /\ Len(rounds) >= 2
        /\ Len(responses) >= 2

\* the DiscussionRound rows of Discussion d, in the order they were added
RoundRows(d) == SelectSeq(rounds, LAMBDA r : r.discussion_id = d)

\* C15: the DiscussionRound rows of a Discussion carry the round numbers
\* 0, 1, ..., m-1 in the order they were created, and the round_type run for
\* round number i is ROUND_SEQUENCE[i].
C15_RoundsContiguous ==
    /\ \A j \in 1..Len(rounds) : rounds[j].discussion_id \in 1..Len(discussions)
    /\ \A c \in DOMAIN calls :
          calls[c].pc # "idle" =>
              LET rows == RoundRows(calls[c].discussion.id)
              IN  /\ \A i \in 1..Len(rows) : rows[i].round_number = i - 1
                  /\ Len(calls[c].started) = Len(rows)
                  /\ \A i \in 1..Len(rows) : calls[c].started[i] = ROUND_SEQUENCE[i]

\* four rounds of one Discussion have been created
C15_Witness ==
    \E c \in DOMAIN calls :
        /\ calls[c].pc # "idle"
        /\ Len(RoundRows(calls[c].discussion.id)) >= 4

\* the call that created the Discussion of DiscussionRound row r
OwnerOf(r) ==
    CHOOSE c \in DOMAIN calls :
        calls[c].pc # "idle" /\ calls[c].discussion.id = rounds[r].discussion_id

\* C16: a DiscussionRound holds at most one LLMResponse per llm name, and
\* every LLMResponse carries the name of an llm of the engine whose
\* generate_response call of that round returned.
C16_OneResponsePerAgent ==
    /\ \A i, j \in 1..Len(responses) :
          (/\ responses[i].round_id = responses[j].round_id
           /\ responses[i].llm_name = responses[j].llm_name) => i = j
    /\ \A i \in 1..Len(responses) :
          LET r == responses[i].round_id
              f == calls[OwnerOf(r)]
          IN  /\ responses[i].llm_name \in Names
              /\ r \in 1..Len(rounds)
              /\ QueriesOf(f, rounds[r].round_number, responses[i].llm_name) # {}
              /\ ~FailedIn(f, rounds[r].round_number, responses[i].llm_name)

\* one round holds the responses of two llms, and in another round one llm
\* failed and another one answered
C16_Witness ==
    \E c \in DOMAIN calls : \E k1, k2 \in RoundNumbers : \E a \in Names :
        /\ calls[c].pc # "idle"
        /\ Cardinality(ResponseRows(calls[c], k1)) = 2
        /\ FailedIn(calls[c], k2, a)
        /\ RoundOver(calls[c], k2)
        /\ Cardinality(ResponseRows(calls[c], k2)) = 1

\* the LLMResponse rows of round k of the Discussion of a call, in the order
\* they were added
RowsOfRound(f, k) ==
    SelectSeq(responses,
              LAMBDA r : /\ rounds[r.round_id].discussion_id = f.discussion.id
                         /\ rounds[r.round_id].round_number = k)

\* round_responses of round k, read from the rows
RoundTexts(f, k) ==
    [i \in 1..Len(RowsOfRound(f, k)) |->
        [name |-> RowsOfRound(f, k)[i].llm_name,
         response |-> RowsOfRound(f, k)[i].response_text]]

\* the metrics of round k, computed from the rows
RoundMetrics(f, k) ==
    CheckConsensus([i \in 1..Len(RowsOfRound(f, k)) |->
                      [name |-> RowsOfRound(f, k)[i].llm_name,
                       response |-> RowsOfRound(f, k)[i].response_text,
                       confidence |-> RowsOfRound(f, k)[i].confidence_score]],
                   ROUND_SEQUENCE[k + 1]).metrics

\* C17 as stated: the prompt of round k holds the original prompt, the
\* responses of every round before k and both metrics of round k-1; the
\* prompt of round 0 holds no response and no metrics.
C17_PromptHoldsAllPrior ==
    \A c \in DOMAIN calls : \A i \in 1..Len(calls[c].queries) :
        LET f == calls[c]
            q == f.queries[i]
        IN  /\ q.prompt.prompt = Prompt(c)
            /\ q.round = 0 => q.prompt.previous = <<>> /\ q.prompt.metrics = None
            /\ q.round > 0 =>
                  /\ \A k \in 0..(q.round - 1) : \A j \in 1..Len(RoundTexts(f, k)) :
                        \E p \in 1..Len(q.prompt.previous) :
                            q.prompt.previous[p] = RoundTexts(f, k)[j]
                  /\ q.prompt.metrics =
                        [field \in {"similarity", "avg_confidence"} |->
                            TwoDecimals(RoundMetrics(f, q.round - 1)[field])]

\* C17, amended: the prompt of round k >= 1 holds the original prompt, the
\* responses of round k-1 and no others, and those metrics of round k-1 that
\* the guidance of the round_type names: the similarity, and in FLOP the
\* average confidence; the prompt of round 0 holds no response and no metrics.
C17_PromptHoldsPreviousRound ==
    \A c \in DOMAIN calls : \A i \in 1..Len(calls[c].queries) :
        LET f == calls[c]
            q == f.queries[i]
        IN  /\ q.prompt.prompt = Prompt(c)
            /\ q.round = 0 => q.prompt.previous = <<>> /\ q.prompt.metrics = None
            /\ q.round > 0 =>
                  /\ q.prompt.previous = RoundTexts(f, q.round - 1)
                  /\ "similarity" \in DOMAIN q.prompt.metrics
                  /\ \A field \in DOMAIN q.prompt.metrics :
                        q.prompt.metrics[field] =
                            TwoDecimals(RoundMetrics(f, q.round - 1)[field])
                  /\ "avg_confidence" \in DOMAIN q.prompt.metrics <=>
                        ROUND_SEQUENCE[q.round + 1] = "FLOP"

\* an llm is called in TURN after it gave different answers in PRE_FLOP and
\* in FLOP
C17_Witness ==
    \E c \in DOMAIN calls : \E i \in 1..Len(calls[c].queries) :
        /\ calls[c].queries[i].round = 2
        /\ \E a \in Names :
              \E x \in 1..Len(RoundTexts(calls[c], 0)), y \in 1..Len(RoundTexts(calls[c], 1)) :
                  /\ RoundTexts(calls[c], 0)[x].name = a
                  /\ RoundTexts(calls[c], 1)[y].name = a
                  /\ RoundTexts(calls[c], 0)[x].response # RoundTexts(calls[c], 1)[y].response

\* C18: while round k+1 runs, previous_responses holds exactly the llms that
\* answered in round k, each with its text of round k: an llm that failed in
\* round k has no entry, neither an older text nor an empty one.
C18_PreviousAreSurvivors ==
    \A c \in DOMAIN calls :
        LET f == calls[c]
        IN  (f.pc \in {"round_start", "query", "await", "check"} /\ f.current_round >= 1) =>
                /\ f.previous_responses = RoundTexts(f, f.current_round - 1)
                /\ \A a \in Names :
                      (\E p \in 1..Len(f.previous_responses) :
                           f.previous_responses[p].name = a)
                        <=> (/\ QueriesOf(f, f.current_round - 1, a) # {}
                             /\ ~FailedIn(f, f.current_round - 1, a))
                /\ \A i \in 1..Len(f.queries) :
                      f.queries[i].round = f.current_round =>
                          f.queries[i].prompt.previous = f.previous_responses

\* an llm that answered in one round failed in the next, and another llm is
\* being called in the round after that
C18_Witness ==
    \E c \in DOMAIN calls : \E a \in Names :
        LET f == calls[c]
        IN  /\ f.pc = "await"
            /\ f.current_round >= 2
            /\ FailedIn(f, f.current_round - 1, a)
            /\ \E j \in 1..Len(RoundTexts(f, f.current_round - 2)) :
                  RoundTexts(f, f.current_round - 2)[j].name = a
            /\ \A p \in 1..Len(f.previous_responses) : f.previous_responses[p].name # a

\* C19: an LLMResponse is persisted for the newest DiscussionRound of its
\* Discussion, which exists already, and a DiscussionRound is created only
\* with a higher number than every DiscussionRound and every LLMResponse its
\* Discussion has so far, whatever other calls do in between; the call that
\* creates it works on no other round from then on.
C19_PersistenceFollowsRounds ==
    [][/\ Len(responses') > Len(responses) =>
             LET r == responses'[Len(responses')].round_id
             IN  /\ r \in 1..Len(rounds)
                 /\ rounds' = rounds
                 /\ \A j \in 1..Len(rounds) :
                       rounds[j].discussion_id = rounds[r].discussion_id => j <= r
       /\ Len(rounds') > Len(rounds) =>
             LET new == rounds'[Len(rounds')]
             IN  /\ responses' = responses
                 /\ \A j \in 1..Len(rounds) :
                       rounds[j].discussion_id = new.discussion_id =>
                           rounds[j].round_number < new.round_number
                 /\ \A c \in DOMAIN calls :
                       (calls'[c].pc # "idle" /\ calls'[c].discussion.id = new.discussion_id)
                           => calls'[c].round_id = new.id]_vars

\* the responses of two Discussions were persisted in turns, in a second round
C19_Witness ==
    /\ Switches(rounds, responses) >= 2
    /\ \E i \in 1..Len(responses) : rounds[responses[i].round_id].round_number >= 1
    /\ \A c \in DOMAIN calls : calls[c].pc = "await"

\* the calls that have created their Discussion
Begun == {c \in DOMAIN calls : calls[c].pc # "idle"}

\* the responses the llms gave to a call, as the call reported them
OwnResponses(f) ==
    LET given == SelectSeq(f.progress, LAMBDA msg : msg[1] = "complete")
    IN  [i \in 1..Len(given) |->
           [llm_name |-> given[i][2], response_text |-> given[i][3],
            confidence_score |-> given[i][4]]]

\* the LLMResponse rows of the Discussion of a call, without their keys
AttachedResponses(f) ==
    LET rows == SelectSeq(responses,
                          LAMBDA r : rounds[r.round_id].discussion_id = f.discussion.id)
    IN  [i \in 1..Len(rows) |->
           [llm_name |-> rows[i].llm_name, response_text |-> rows[i].response_text,
            confidence_score |-> rows[i].confidence_score]]

\* the outcome of a call that is over, as the responses its own llms gave
\* determine it when the call runs alone: it ended in the first round with no
\* response, with the metrics and the texts of the round before, and its
\* Discussion is completed without consensus
OutcomeOfOwnResponses(c) ==
    LET f == calls[c]
        k == f.current_round
    IN  /\ f.pc = "raised"
        /\ f.exc = "ZeroDivisionError"
        /\ RowsOfRound(f, k) = <<>>
        /\ \A j \in 0..(k - 1) : RowsOfRound(f, j) # <<>>
        /\ k > 0 => /\ f.consensus_metrics = RoundMetrics(f, k - 1)
                    /\ f.previous_responses = RoundTexts(f, k - 1)
        /\ RowOf(f) = [NewDiscussion(f.discussion.id, Prompt(c)) EXCEPT !.completed_at = TRUE]

\* C20: concurrent calls create one Discussion each, with the prompt of the
\* call; every DiscussionRound and LLMResponse is attached to the Discussion
\* of the call that created it; and the outcome of each call is the one its
\* own responses give when it runs alone.
C20_CallsIndependent ==
    /\ Len(discussions) = Cardinality(Begun)
    /\ \A c, e \in Begun : c # e => calls[c].discussion.id # calls[e].discussion.id
    /\ \A c \in Begun : /\ calls[c].discussion.id \in 1..Len(discussions)
                        /\ RowOf(calls[c]).prompt = Prompt(c)
                        /\ Len(RoundRows(calls[c].discussion.id)) = Len(calls[c].started)
                        /\ AttachedResponses(calls[c]) = OwnResponses(calls[c])
    /\ \A j \in 1..Len(rounds) :
          \E c \in Begun : calls[c].discussion.id = rounds[j].discussion_id
    /\ \A c \in Begun : Finished(calls[c]) => OutcomeOfOwnResponses(c)

\* two calls whose responses were persisted in turns are over, and one of
\* them got an answer the other did not get
C20_Witness ==
    /\ Cardinality(Begun) = 2
    /\ \A c \in Begun : Finished(calls[c])
    /\ Switches(rounds, responses) >= 2
    /\ \E c, e \in Begun : OwnResponses(calls[c]) # OwnResponses(calls[e])

(* ------------------------------ C21 ------------------------------------ *)
\* C21: the engine-wide lock is held only while a Discussion is created and
\* its lock entry registered or removed: whenever a call is suspended in an
\* agent call, or stands at any other step of a stage, no call holds the
\* lock, so a call that has not begun can take it at once
C21_GlobalLockOnlyForRegistration ==
    /\ GlobalLockFree
    /\ \A c \in DOMAIN calls : calls[c].pc = "idle" => ENABLED Begin(c)

\* a second call has begun and is in its stage while the first waits for an agent
C21_Witness ==
    /\ DOMAIN calls = ConcurrentCallIds
    /\ calls[1].pc = "await"
    /\ calls[1].current_round = 0
    /\ calls[2].pc = "await"
    /\ calls[2].current_round = 1

(* ------------------------------ C22 ------------------------------------ *)
\* the clock: max_duration seconds have passed since the round of the call
\* began (ROUND_CONFIGS[round_type]["max_duration"]) while generate_response
\* is pending.  discuss never reads max_duration and awaits the llm without
\* a timeout, so nothing of the call changes but the time.
BudgetExpires(c) ==
    /\ calls[c].pc = "await"
    /\ calls[c].expired_round # calls[c].current_round
    /\ calls' = [calls EXCEPT ![c] = [@ EXCEPT !.expired_round = calls[c].current_round]]
    /\ UNCHANGED <<discussions, rounds, responses, discussion_locks, deviations, fn>>

NextTimed == Next \/ \E c \in CallIds : BudgetExpires(c)

SpecTimed == Init /\ [][NextTimed]_vars

\* C22: the time budget of a stage is a hard timeout: once max_duration has
\* expired in a stage, no agent call of that stage is still awaited (the
\* pending agent counts as failed and the stage goes on)
C22_BudgetIsHardTimeout ==
    \A c \in DOMAIN calls :
        ~(calls[c].pc = "await" /\ calls[c].expired_round = calls[c].current_round)

(* ------------------------------ C23 ------------------------------------ *)
\* C23: when the caller cancels discuss() while an agent call is in flight,
\* the step of the cancellation persists no LLMResponse for that call, and
\* no step after it adds a DiscussionRound or an LLMResponse
C23_NothingPersistedAfterCancel ==
    [][\A c \in DOMAIN calls :
          calls'[c].exc = "CancelledError" =>
              /\ rounds' = rounds
              /\ responses' = responses]_vars

\* the call was cancelled in its second round, with rows of the first persisted
C23_Witness ==
    \E c \in DOMAIN calls :
        /\ calls[c].exc = "CancelledError"
        /\ calls[c].pc = "raised"
        /\ calls[c].current_round = 1
        /\ \E i \in 1..Len(calls[c].queries) :
              /\ calls[c].queries[i].round = 1
              /\ ~\E j \in 1..Len(responses) :
                    /\ responses[j].round_id = calls[c].round_id
                    /\ responses[j].llm_name = calls[c].queries[i].name

(* ------------------------- a failing db session ------------------------ *)
\* self.db.add / self.db.commit raise; the failed commit is rolled back, so
\* the object that was being added is in no table

\* the call notes the failed commit of an object of the kind "site"
StorageError(f, site) == [f EXCEPT !.storage_errors = Append(@, site)]

\* lines 420-423: the commit of the new Discussion raises inside "async with
\* self._global_lock", before the try of discuss is entered: the lock is
\* released and the exception leaves discuss; no lock entry was registered
StorageFailBegin(c) ==
    /\ calls[c].pc = "idle"
    /\ GlobalLockFree
    /\ deviations > 0
    /\ deviations' = deviations - 1
    /\ calls' = [calls EXCEPT ![c] =
                    ExitGlobalLock(EnterGlobalLock(
                        [StorageError(@, "Discussion")
                           EXCEPT !.pc = "raised", !.exc = "StorageError"]))]
    /\ UNCHANGED <<discussions, rounds, responses, discussion_locks, fn>>

\* lines 441-448 and 582-591: the commit of the DiscussionRound raises; the
\* outer handler completes the Discussion, commits and raises again
StorageFailRound(c) ==
    /\ calls[c].pc = "round_start"
    /\ deviations > 0
    /\ deviations' = deviations - 1
    /\ LET f0 == calls[c]
           f1 == UpdateProgress(f0, <<"round_start", RoundType(f0)>>)
       IN  RaiseFrom(c, StorageError(f1, "DiscussionRound"), "StorageError")
    /\ UNCHANGED <<rounds, responses, fn>>

\* lines 462-472 and 487-490: generate_response returned text, the commit of
\* its LLMResponse raises inside the try of the llm: the handler of line 487
\* logs and reports the error and the loop continues with the next llm; the
\* text reaches neither round_responses nor current_responses
StorageFailResponse(c, text) ==
    /\ calls[c].pc = "await"
    /\ deviations > 0
    /\ deviations' = deviations - 1
    /\ LET f0 == calls[c]
           name == llms[f0.k]
           f1 == [StorageError(f0, "LLMResponse")
                    EXCEPT !.failed = Append(@, [round |-> f0.current_round, name |-> name])]
       IN  calls' = [calls EXCEPT ![c] = NextLlm(UpdateProgress(f1, <<"error", name>>))]
    /\ UNCHANGED <<discussions, rounds, responses, discussion_locks, fn>>

\* lines 493 and 582-591: _check_consensus raises, and the commit of
\* completed_at in the outer handler raises as well: that exception leaves
\* the handler, the "finally" pops the lock entry
StorageFailTerminal(c) ==
    /\ calls[c].pc = "check"
    /\ CheckConsensus(calls[c].current_responses, RoundType(calls[c])).raised
    /\ GlobalLockFree
    /\ deviations > 0
    /\ deviations' = deviations - 1
    /\ calls' = [calls EXCEPT ![c] =
                    ExitGlobalLock(EnterGlobalLock(
                        [StorageError(@, "completed_at")
                           EXCEPT !.pc = "raised", !.exc = "StorageError",
                                  !.discussion.completed_at = TRUE]))]
    /\ discussion_locks' = discussion_locks \ {calls[c].discussion.id}
    /\ UNCHANGED <<discussions, rounds, responses, fn>>

NextStorage ==
    \/ Next
    \/ \E c \in CallIds :
          \/ StorageFailBegin(c)
          \/ StorageFailRound(c)
          \/ \E text \in RespTexts : StorageFailResponse(c, text)
          \/ StorageFailTerminal(c)

SpecStorage == Init /\ [][NextStorage]_vars

(* ------------------------------ C24 ------------------------------------ *)
\* C24: every storage failure during a discussion (of the Discussion, a
\* DiscussionRound, an LLMResponse or the terminal fields) makes discuss()
\* raise that failure to its caller; none is absorbed
C24_StorageFailureRaises ==
    \A c \in DOMAIN calls :
        calls[c].storage_errors # <<>> =>
            calls[c].pc = "raised" /\ calls[c].exc = "StorageError"

(* ------------------------------ C25 ------------------------------------ *)
\* C25: a failure while one agent of a round is handled (its call or the
\* persistence of its response) changes no LLMResponse row and no entry of
\* round_responses and current_responses, and the similarity and average
\* confidence of the round are those of exactly the responses that were
\* recorded, the failed agent left out
C25_FailureLeavesOthersUntouched ==
    /\ [](\A c \in DOMAIN calls :
            calls[c].pc = "decide" =>
                calls[c].consensus_metrics = RoundMetrics(calls[c], calls[c].current_round))
    /\ [][\A c \in DOMAIN calls :
            Len(calls'[c].failed) > Len(calls[c].failed) =>
                /\ responses' = responses
                /\ calls'[c].round_responses = calls[c].round_responses
                /\ calls'[c].current_responses = calls[c].current_responses]_vars

\* a round with one agent failed and another recorded has been evaluated
C25_Witness ==
    \E c \in DOMAIN calls :
        /\ calls[c].pc = "decide"
        /\ \E n \in Names : FailedIn(calls[c], calls[c].current_round, n)
        /\ \E i \in 1..Len(calls[c].storage_errors) :
              calls[c].storage_errors[i] = "LLMResponse"
        /\ Len(RowsOfRound(calls[c], calls[c].current_round)) >= 1
        /\ calls[c].consensus_metrics.avg_confidence > 0

(* ------------------------------ C26 ------------------------------------ *)
\* C26: a discuss() call that is over and none of whose agent calls failed
\* has sent to the sink: the start of the discussion first; for every round
\* its start, then only messages about agents, then one summary; and exactly
\* one final resolution (consensus reached or not reached), as the last message
C26_SinkSequence ==
    \A c \in DOMAIN calls :
        (Finished(calls[c]) /\ calls[c].failed = <<>>) =>
            LET p == calls[c].progress
                final == {i \in 1..Len(p) : p[i][1] \in {"consensus", "no_consensus"}}
            IN  /\ Len(p) >= 1
                /\ p[1] = <<"start">>
                /\ \A i \in 2..Len(p) : p[i] # <<"start">>
                /\ \A i \in 1..Len(p) :
                      p[i][1] = "round_start" =>
                          \E j \in (i + 1)..Len(p) :
                              /\ p[j][1] = "results"
                              /\ \A k \in (i + 1)..(j - 1) :
                                    p[k][1] \in {"getting", "complete", "error"}
                /\ final = {Len(p)}

(* ------------------------------ C27 ------------------------------------ *)
\* llm.name as the key of a Python dict
NameString(name) == <<"llm1", "llm2", "llm3", "llm4">>[name[2]]

\* C27: a result of discuss() without the key "consensus" is itself a map
\* from the names of the agents that responded to their texts: every such
\* name is a top-level key of the result, with the text as its value
C27_ResultIsNameMap ==
    (fn.name = "no_consensus_result" /\ fn.out # None /\ "consensus" \notin DOMAIN fn.out) =>
        \A i \in 1..Len(fn.responses) :
            /\ NameString(fn.responses[i].name) \in DOMAIN fn.out
            /\ fn.out[NameString(fn.responses[i].name)] = fn.responses[i].response

(* ------------------- _extract_confidence on written lines --------------- *)
WrittenLines == UNION {[1..n -> ConfidenceChars] : n \in 0..MaxChars}

InitWritten ==
    /\ calls = [c \in CallIds |-> IdleCall]
    /\ discussions = <<>>
    /\ rounds = <<>>
    /\ responses = <<>>
    /\ discussion_locks = {}
    /\ deviations = MaxDeviations
    /\ \E label \in ConfidenceLabels, chars \in WrittenLines :
          fn = [name |-> "_extract_confidence", label |-> label, chars |-> chars,
                out |-> None]

ApplyExtractConfidence ==
    /\ fn.name = "_extract_confidence" /\ fn.out = None
    /\ fn' = [fn EXCEPT !.out = [confidence |-> ExtractConfidenceWritten(fn.label, fn.chars)]]
    /\ UNCHANGED <<calls, discussions, rounds, responses, discussion_locks, deviations>>

NextWritten == ApplyExtractConfidence

SpecWritten == InitWritten /\ [][NextWritten]_vars

(* ------------------------------ C28 ------------------------------------ *)
\* chars is a decimal numeral, with or without a point, and nothing else
IsNumeral(chars) ==
    LET a == RunLength(chars, Digits)
    IN  \/ a >= 1 /\ a = Len(chars)
        \/ /\ a + 1 < Len(chars)
           /\ chars[a + 1] = "."
           /\ a + 1 + RunLength(SubSeq(chars, a + 2, Len(chars)), Digits) = Len(chars)

\* C28: the extracted confidence lies in [0, 1]; for a label followed by a
\* number n it is n when n <= 1 and min(n / 100, 1) when n > 1; for a text
\* without the label it is 0.0, also when the text holds a number
C28_ConfidenceNormalised ==
    (fn.name = "_extract_confidence" /\ fn.out # None) =>
        /\ fn.out.confidence >= 0
        /\ fn.out.confidence <= One
        /\ fn.label = "none" => fn.out.confidence = 0
        /\ (fn.label # "none" /\ IsNumeral(fn.chars)) =>
              LET n == Float(fn.chars)
              IN  fn.out.confidence = IF n <= One THEN n ELSE Min(n \div 100, One)

\* CONFIDENCE: 0.85 has been read as 0.85
C28_Witness ==
    /\ fn.name = "_extract_confidence"
    /\ fn.out # None
    /\ fn.label = "CONFIDENCE:"
    /\ fn.chars = <<"0", ".", "8", "5">>
    /\ fn.out.confidence = 8500

(* ---------------------- the similarity of two texts -------------------- *)
SimTexts ==
    {MkText(body, conf, code, ev) :
        body \in {"A", "B"}, conf \in {NoLabel, 9000},
        code \in {"none", "c1", "c2", "c3", "c4", "c5"}, ev \in {"none", "e1", "e2"}}
    \cup {MkPlain(body, code) :
            body \in {"A", "B"}, code \in {"none", "c1", "c2", "c3", "c4", "c5"}}

\* metrics['similarity'] of _check_consensus for the texts in the given order
StageSimilarity(texts) ==
    CheckConsensus([i \in 1..Len(texts) |->
                      [name |-> llms[i], response |-> texts[i],
                       confidence |-> ExtractConfidence(texts[i])]],
                   "PRE_FLOP").metrics.similarity

InitSim ==
    /\ calls = [c \in CallIds |-> IdleCall]
    /\ discussions = <<>>
    /\ rounds = <<>>
    /\ responses = <<>>
    /\ discussion_locks = {}
    /\ deviations = MaxDeviations
    /\ \E a \in SimTexts, b \in SimTexts :
          fn = [name |-> "similarity", texts |-> <<a, b>>, out |-> None]

ApplyStageSimilarity ==
    /\ fn.name = "similarity" /\ fn.out = None
    /\ fn' = [fn EXCEPT !.out = [similarity |-> StageSimilarity(fn.texts)]]
    /\ UNCHANGED <<calls, discussions, rounds, responses, discussion_locks, deviations>>

NextSim == ApplyStageSimilarity

SpecSim == InitSim /\ [][NextSim]_vars

(* ------------------------------ C29 ------------------------------------ *)
\* C29: the similarity of two responses that are the same text is 1.0,
\* whether or not the text has upper-case labels, a fenced block or evidence
C29_IdenticalTextsScoreOne ==
    (fn.name = "similarity" /\ fn.out # None /\ fn.texts[1] = fn.texts[2]) =>
        fn.out.similarity = One

(* ------------------------------ C30 ------------------------------------ *)
\* C30: the similarity of a round does not depend on the order of the
\* responses: the score of (A, B) is the score of (B, A), with fenced blocks
\* and evidence as well
C30_SimilarityOrderIndependent ==
    (fn.name = "similarity" /\ fn.out # None) =>
        fn.out.similarity = StageSimilarity(<<fn.texts[2], fn.texts[1]>>)

(* ------------------------------ C31 ------------------------------------ *)
\* the texts of the responses given to _check_consensus
FnResponseTexts == [i \in 1..Len(fn.responses) |-> fn.responses[i].response]

\* the score blended as 0.3 * base + 0.7 * code when with_code holds, then as
\* 0.7 * current + 0.3 * evidence when some text has an EVIDENCE: section
BlendedScore(texts, with_code) ==
    LET base == CalculateSimilarity(texts)
        code == CalculateCodeSimilarity([i \in 1..Len(texts) |-> ExtractCodeBlocks(texts[i])])
        current == IF with_code THEN (base * 3 + code * 7) \div 10 ELSE base
    IN  IF \E i \in 1..Len(texts) : HasEvidenceLabel(texts[i])
        THEN (current * 7 + CalculateEvidenceSimilarity(texts) * 3) \div 10
        ELSE current

\* C31 as stated: when any response holds a fenced block the score becomes
\* 0.3 * base + 0.7 * code_similarity; when any holds an EVIDENCE: section it
\* then becomes 0.7 * current + 0.3 * evidence_similarity; with neither it is
\* the base similarity
C31_BlendWhenAnyHasCode ==
    (fn.name = "_check_consensus" /\ fn.out # None /\ ~fn.out.raised) =>
        fn.out.metrics.similarity =
            BlendedScore(FnResponseTexts,
                         \E i \in 1..Len(fn.responses) : HasFence(FnResponseTexts[i]))

\* C31 amended: the code blend is applied when some response holds a fenced
\* block and every response yields at least one block; the evidence blend
\* when any response holds an EVIDENCE: section; otherwise the base is kept
C31_BlendWhenAllHaveCode ==
    (fn.name = "_check_consensus" /\ fn.out # None /\ ~fn.out.raised) =>
        fn.out.metrics.similarity =
            BlendedScore(FnResponseTexts,
                         \A i \in 1..Len(fn.responses) :
                             ExtractCodeBlocks(FnResponseTexts[i]) # <<>>)

\* two responses with different blocks, one of them with evidence, were scored
C31_Witness ==
    /\ fn.name = "_check_consensus"
    /\ fn.out # None
    /\ Len(fn.responses) = 2
    /\ fn.responses[1].response.code = "c1"
    /\ fn.responses[2].response.code = "c2"
    /\ fn.responses[1].response.ev = "e1"
    /\ fn.responses[2].response.ev = "none"
    /\ fn.responses[1].response.body = fn.responses[2].response.body
    /\ fn.out.metrics.similarity # CalculateSimilarity(FnResponseTexts)

(* ------------------------------ C32 ------------------------------------ *)
\* the "results" messages of a call: <<"results", round number, metrics,
\* required confidence>>, in the order they were reported
ResultsMessages(f) ==
    SelectSeq(f.progress, LAMBDA msg : msg[1] = "results")

\* C32: the required confidence is non-decreasing along ROUND_SEQUENCE, is 0.0
\* for the first round and 0.75 for the last, and the threshold a call reads
\* for a round is the configured one in every state of the run, so the
\* thresholds a call has used so far never decrease
C32_ThresholdsMonotone ==
    /\ RequiredConfidence(ROUND_SEQUENCE[1]) = 0
    /\ RequiredConfidence(ROUND_SEQUENCE[Len(ROUND_SEQUENCE)]) = 7500
    /\ \A i \in 1..(Len(ROUND_SEQUENCE) - 1) :
           RequiredConfidence(ROUND_SEQUENCE[i]) <= RequiredConfidence(ROUND_SEQUENCE[i + 1])
    /\ \A c \in CallIds :
           LET used == ResultsMessages(calls[c])
           IN  \A i \in 1..Len(used) :
                   /\ used[i][4] = RequiredConfidence(ROUND_SEQUENCE[used[i][2]])
                   /\ \A j \in 1..i : used[j][4] <= used[i][4]

\* a call has applied the thresholds of PRE_FLOP, FLOP and TURN
C32_Witness ==
    \E c \in CallIds :
        /\ Len(ResultsMessages(calls[c])) = 3
        /\ ResultsMessages(calls[c])[1][4] = 0
        /\ ResultsMessages(calls[c])[3][4] = 6000

(* ------------------------------ C33 ------------------------------------ *)
\* the calls that created the Discussion row i
OwnersOfDiscussion(i) ==
    {c \in DOMAIN calls : calls[c].discussion # None /\ calls[c].discussion.id = i}

\* C33: a Discussion row is persisted with consensus_reached = 1 only if the
\* call that owns it returned a result with status consensus_reached; the
\* row of a call that raised or returned no_consensus has consensus_reached
\* = 0, also when a commit of the db session failed
C33_ConsensusRowOnlyIfReturned ==
    /\ \A i \in 1..Len(discussions) :
           discussions[i].consensus_reached = 1 =>
               \E c \in OwnersOfDiscussion(i) :
                   /\ calls[c].pc = "returned"
                   /\ calls[c].result.status = "consensus_reached"
    /\ \A c \in DOMAIN calls :
           (/\ calls[c].discussion # None
            /\ \/ calls[c].pc = "raised"
               \/ calls[c].pc = "returned" /\ calls[c].result.status = "no_consensus") =>
               RowOf(calls[c]).consensus_reached = 0

\* a call raised after the commit of completed_at failed in the handler, and
\* its Discussion row is not consensus-reached
C33_Witness ==
    \E c \in DOMAIN calls :
        /\ calls[c].pc = "raised"
        /\ calls[c].discussion # None
        /\ calls[c].storage_errors = <<"completed_at">>
        /\ Len(calls[c].started) = 4
        /\ RowOf(calls[c]).consensus_reached = 0

(* ------------------------------ C34 ------------------------------------ *)
\* C34: in every persisted state a Discussion row with consensus_reached set
\* has a final_consensus and a completed_at, and a row with a final_consensus
\* has consensus_reached set
C34_ResolutionFieldsAgree ==
    \A i \in 1..Len(discussions) :
        /\ discussions[i].consensus_reached = 1 =>
               /\ discussions[i].final_consensus # None
               /\ discussions[i].completed_at
        /\ discussions[i].final_consensus # None =>
               discussions[i].consensus_reached = 1

\* the Discussion of a call that raised is persisted as completed, with
\* consensus_reached and final_consensus both unset
C34_Witness ==
    \E c \in CallIds :
        /\ calls[c].pc = "raised"
        /\ calls[c].exc = "ZeroDivisionError"
        /\ RowOf(calls[c]).completed_at
        /\ RowOf(calls[c]).consensus_reached = 0
        /\ RowOf(calls[c]).final_consensus = None

(* ------------------------------ C36 ------------------------------------ *)
\* C36: all llms queried in a round are sent the same prompt, the one of the
\* first query of the round, which was formatted before any response of the
\* round existed: no prompt of round k holds a response given in round k,
\* whichever llms answered or failed before
C36_SamePromptWithinRound ==
    \A c \in DOMAIN calls :
        \A i, j \in 1..Len(calls[c].queries) :
            calls[c].queries[i].round = calls[c].queries[j].round =>
                calls[c].queries[i].prompt = calls[c].queries[j].prompt

\* in FLOP the first llm answered with another text than in PRE_FLOP, and the
\* second llm was queried after that answer
C36_Witness ==
    \E c \in CallIds :
        LET f == calls[c]
        IN  /\ \E i, j \in 1..Len(f.queries) :
                   /\ i < j
                   /\ f.queries[i].round = 1
                   /\ f.queries[j].round = 1
                   /\ f.queries[i].name = llms[1]
                   /\ f.queries[j].name = llms[2]
            /\ \E x \in ResponseRows(f, 0), y \in ResponseRows(f, 1) :
                   /\ responses[x].llm_name = llms[1]
                   /\ responses[y].llm_name = llms[1]
                   /\ responses[x].response_text # responses[y].response_text

(* ------------------------------ C37 ------------------------------------ *)
\* two discuss() tasks on one engine; each may be cancelled at its await, its
\* progress callback may raise and its db session may fail
NextExits ==
    \E c \in ConcurrentCallIds :
        /\ Runnable(c)
        /\ \/ Begin(c)
           \/ StartRound(c)
           \/ Query(c)
           \/ \E text \in {TA, TB} : Respond(c, text)
           \/ AgentFail(c)
           \/ CheckRound(c)
           \/ Decide(c)
           \/ Cancel(c)
           \/ SinkRaiseStart(c)
           \/ SinkRaiseRoundStart(c)
           \/ \E again \in BOOLEAN : SinkRaiseGetting(c, again)
           \/ \E text \in {TA, TB} : SinkRaiseComplete(c, text)
           \/ SinkRaiseError(c)
           \/ SinkRaiseResults(c)
           \/ StorageFailBegin(c)
           \/ StorageFailRound(c)
           \/ \E text \in {TA, TB} : StorageFailResponse(c, text)
           \/ StorageFailTerminal(c)
        /\ Switches(rounds', responses') <= MaxSwitches

SpecExits == InitConcurrent /\ [][NextExits]_vars

\* the discussions whose call registered a lock entry and is not over
OpenDiscussions ==
    {calls[c].discussion.id :
        c \in {x \in DOMAIN calls : /\ calls[x].discussion # None
                                    /\ calls[x].storage_errors # <<"Discussion">>
                                    /\ ~Finished(calls[x])}}

\* C37: _discussion_locks holds an entry for exactly the discussions whose
\* call created the Discussion and has neither returned nor raised; when
\* every call is over, by whatever exit, the registry is empty
C37_RegistryHoldsOpenDiscussions ==
    /\ discussion_locks = OpenDiscussions
    /\ (\A c \in DOMAIN calls : Finished(calls[c])) => discussion_locks = {}

\* one call was cancelled, the other raised from the outer handler, and the
\* registry is empty
C37_Witness ==
    /\ \A c \in DOMAIN calls : Finished(calls[c])
    /\ \E c \in DOMAIN calls : calls[c].exc = "CancelledError"
    /\ \E c \in DOMAIN calls : calls[c].exc = "ZeroDivisionError"
    /\ Len(discussions) = 2
    /\ discussion_locks = {}

(* ------------------------------ C38 ------------------------------------ *)
\* the entries evaluations[evaluator][target] of a result of
\* _get_cross_evaluations, as positions <<i, j>>
RecordedScores(evaluations, evaluator, target) ==
    {p \in UNION {{<<i, j>> : j \in 1..Len(evaluations[i].scores)} :
                      i \in 1..Len(evaluations)} :
        /\ evaluations[p[1]].name = evaluator
        /\ evaluations[p[1]].scores[p[2]].name = target}

\* C38: when the evaluation of a pair raises, the pair is recorded with score
\* 0.0 and the other pairs are still evaluated: _get_cross_evaluations
\* returns, with exactly one score for every ordered pair of an evaluator and
\* another target and no score of an agent for itself
C38_FailedEvaluationScoresZero ==
    (fn.name = "_get_cross_evaluations" /\ fn.out # None) =>
        \A e, t \in 1..Len(fn.responses) :
            LET recorded == RecordedScores(fn.out.evaluations,
                                           fn.responses[e].name, fn.responses[t].name)
            IN  IF e = t THEN recorded = {}
                ELSE /\ Cardinality(recorded) = 1
                     /\ LlmsGetItem([type |-> "str", value |-> fn.responses[e].name]).raised =>
                            \A p \in recorded :
                                fn.out.evaluations[p[1]].scores[p[2]].score = 0

\* two responses were cross-evaluated by agents that would have answered 1.0:
\* both evaluations raised and both pairs are recorded with 0.0
C38_Witness ==
    /\ fn.name = "_get_cross_evaluations"
    /\ fn.out # None
    /\ Len(fn.responses) = 2
    /\ \A e, t \in 1..2 : fn.answers[e][t] = One
    /\ Len(fn.out.evaluations) = 2
    /\ \A i \in 1..2 : fn.out.evaluations[i].scores[1].score = 0

(* ------------------------------ C39 ------------------------------------ *)
\* the event loop keeps running the task, and every generate_response and
\* every call of the db session returns or raises: a step that is possible
\* is taken at some time
SpecTerminating == Init /\ [][NextStorage]_vars /\ WF_vars(NextStorage)

\* the DiscussionRound rows of the discussion of a call
RoundsOf(f) ==
    {r \in 1..Len(rounds) : f.discussion # None /\ rounds[r].discussion_id = f.discussion.id}

\* C39: every discuss() call returns or raises at some time, and it never
\* creates more than 5 DiscussionRound rows, never makes more than 5 * n
\* queries of its rounds and never more than n * (n - 1) cross-evaluation
\* calls, n being the number of llms of the engine
C39_TerminatesWithinBounds ==
    /\ [](\A c \in CallIds :
             /\ Cardinality(RoundsOf(calls[c])) <= 5
             /\ Len(calls[c].queries) <= 5 * NAgents
             /\ Len(calls[c].evaluation_calls) <= NAgents * (NAgents - 1))
    /\ <>(\A c \in CallIds : Finished(calls[c]))

\* a call is over after it created four DiscussionRound rows and queried
\* every llm in three of them
C39_Witness ==
    \E c \in CallIds :
        /\ Finished(calls[c])
        /\ Cardinality(RoundsOf(calls[c])) = 4
        /\ Len(calls[c].queries) = 3 * NAgents

(* ---------------------------- RoundManager ------------------------------ *)
\* deliberation/round_manager.py, used by a client that imports the module,
\* constructs one RoundManager and calls its methods

\* the names database/models.py defines
ModelsNames == {"Base", "Discussion", "DiscussionRound", "LLMResponse"}

\* the modules of the package consensus_engine.protocols
ProtocolsModules == {"protocols"}

\* lines 2-5 of round_manager.py, run when the module is imported: the
\* exception a "from ... import ..." raises, "" when all of them succeed
ImportRoundManager ==
    IF ~({"RoundType", "DiscussionRound"} \subseteq ModelsNames) THEN "ImportError"
    ELSE IF "base_protocol" \notin ProtocolsModules THEN "ModuleNotFoundError"
    ELSE ""

\* __init__: no current round, an empty history; serial numbers the dicts
\* start_round creates, standing for their identity
NewRoundManager == [current_round |-> None, round_history |-> <<>>, serial |-> 0]

\* start_round(round_type): a new dict replaces current_round
start_round(self, round_type) ==
    [exc |-> "",
     self |-> [self EXCEPT !.current_round = [id |-> self.serial + 1,
                                              type |-> round_type,
                                              responses |-> <<>>],
                           !.serial = @ + 1]]

\* dict[key] = value on a dict kept as a sequence of entries in insertion order
SetItem(dict, key, value) ==
    IF \E i \in 1..Len(dict) : dict[i].name = key
    THEN [i \in 1..Len(dict) |->
            IF dict[i].name = key THEN [name |-> key, response |-> value] ELSE dict[i]]
    ELSE Append(dict, [name |-> key, response |-> value])

\* add_response(llm_name, response)
add_response(self, llm_name, response) ==
    IF self.current_round = None
    THEN [exc |-> "ValueError", self |-> self]
    ELSE [exc |-> "",
          self |-> [self EXCEPT !.current_round.responses =
                                    SetItem(@, llm_name, response)]]

\* complete_round()
complete_round(self) ==
    IF self.current_round = None
    THEN [exc |-> "ValueError", self |-> self]
    ELSE [exc |-> "",
          self |-> [self EXCEPT !.round_history = Append(@, self.current_round),
                                !.current_round = None]]

\* the calls of a client
ManagerCalls ==
    {[op |-> "start_round", round_type |-> t] : t \in {"PRE_FLOP", "FLOP"}}
      \cup {[op |-> "add_response", llm_name |-> n, response |-> r] :
               n \in {"llm1", "llm2"}, r \in {"r1", "r2"}}
      \cup {[op |-> "complete_round"]}

\* one call on the manager
CallManager(self, call) ==
    CASE call.op = "start_round" -> start_round(self, call.round_type)
      [] call.op = "add_response" -> add_response(self, call.llm_name, call.response)
      [] call.op = "complete_round" -> complete_round(self)

\* the calls of a script made one after the other on a manager, a ValueError
\* being caught by the client: for every call the manager before it, the
\* exception it raised and the manager after it
RECURSIVE RunCalls(_, _)
RunCalls(self, script) ==
    IF script = <<>> THEN <<>>
    ELSE CHOOSE trace \in
             {<<[call |-> Head(script), before |-> self,
                 exc |-> done.exc, after |-> done.self]>>
                \o RunCalls(done.self, Tail(script)) :
                done \in {CallManager(self, Head(script))}} : TRUE

\* the client program: import, construction, calls
RunClient(script) ==
    IF ImportRoundManager # ""
    THEN [exc |-> ImportRoundManager, trace |-> <<>>]
    ELSE [exc |-> "", trace |-> RunCalls(NewRoundManager, script)]

InitRoundManager ==
    /\ calls = [c \in CallIds |-> IdleCall]
    /\ discussions = <<>>
    /\ rounds = <<>>
    /\ responses = <<>>
    /\ discussion_locks = {}
    /\ deviations = MaxDeviations
    /\ \E script \in UNION {[1..m -> ManagerCalls] : m \in 0..MaxCalls} :
          fn = [name |-> "RoundManager", script |-> script, out |-> None]

RunScript ==
    /\ fn.name = "RoundManager" /\ fn.out = None
    /\ fn' = [fn EXCEPT !.out = RunClient(fn.script)]
    /\ UNCHANGED <<calls, discussions, rounds, responses, discussion_locks, deviations>>

NextRoundManager == RunScript

SpecRoundManager == InitRoundManager /\ [][NextRoundManager]_vars

(* ------------------------------ C40 ------------------------------------ *)
\* the responses added to the round that is active before step i of a trace,
\* in the order of the calls
AddedBefore(trace, i) ==
    LET RECURSIVE from(_)
        from(j) ==
            IF j = 0 \/ trace[j].call.op = "start_round" \/ trace[j].exc # ""
                     \/ trace[j].call.op = "complete_round"
            THEN <<>>
            ELSE Append(from(j - 1), [name |-> trace[j].call.llm_name,
                                      response |-> trace[j].call.response])
    IN  from(i - 1)

\* C40: the calls of a client on a RoundManager are all made; add_response
\* and complete_round raise ValueError and change nothing when no round is
\* active; a complete_round that succeeds appends the active round, with the
\* responses added to it, to round_history and resets current_round to None;
\* round_history only grows at its end and holds no round twice
C40_RoundManagerHistory ==
    (fn.name = "RoundManager" /\ fn.out # None) =>
        /\ fn.out.exc = ""
        /\ Len(fn.out.trace) = Len(fn.script)
        /\ \A i \in 1..Len(fn.out.trace) :
              LET step == fn.out.trace[i]
                  history == step.after.round_history
              IN  /\ (step.call.op # "start_round" /\ step.before.current_round = None) =>
                         (step.exc = "ValueError" /\ step.after = step.before)
                  /\ (step.call.op = "complete_round" /\ step.exc = "") =>
                         /\ history = Append(step.before.round_history,
                                             step.before.current_round)
                         /\ \A r \in 1..Len(AddedBefore(fn.out.trace, i)) :
                                \E x \in 1..Len(history[Len(history)].responses) :
                                    history[Len(history)].responses[x].name
                                        = AddedBefore(fn.out.trace, i)[r].name
                         /\ step.after.current_round = None
                  /\ step.call.op # "complete_round" =>
                         history = step.before.round_history
                  /\ \A x, y \in 1..Len(history) : history[x].id = history[y].id => x = y

====
